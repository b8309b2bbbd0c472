------------------------ MODULE AccessSessionProofs ------------------------
(***************************************************************************)
(* The messages of an access, for every tree, every number of accesses and  *)
(* every crash of CrashSpec: what the servers wait for, that the copies fit *)
(* the client's file, and that the two answers of a retrieval add up to the *)
(* block asked for.                                                         *)
(***************************************************************************)
EXTENDS AccessSession, DuetORAMProofs, XorWordsProofs

CrashNext == Next \/ CrashInExchange \/ CrashInWrite \/ \E s \in Server : RestartServing(s)

-----------------------------------------------------------------------------
(***************************************************************************)
(* Words and IVs.                                                           *)
(***************************************************************************)

\* The parts of an IV are numbers.
LEMMA IvParts ==
    ASSUME NEW iv \in IV
    PROVE  iv[1] \in Nat /\ iv[2] \in Nat /\ iv[3] \in Nat
<1>1. ASSUME NEW n \in Node, NEW s \in Slot, iv = BuiltIv(n, s)
      PROVE  iv[1] \in Nat /\ iv[2] \in Nat /\ iv[3] \in Nat
  BY <1>1, Leaves, Config DEF BuiltIv, Node, Slot
<1>2. ASSUME NEW n \in 1 .. MaxUploads, iv = DrawnIv(n)
      PROVE  iv[1] \in Nat /\ iv[2] \in Nat /\ iv[3] \in Nat
  BY <1>2, SessionAssumption DEF DrawnIv
<1> QED
  BY <1>1, <1>2 DEF IV

\* The IVs of the slots, and of the uploads up to the bound.
LEMMA IvTypes ==
    /\ \A n \in Node, s \in Slot : BuiltIv(n, s) \in IV
    /\ \A n \in 1 .. MaxUploads : DrawnIv(n) \in IV
  BY DEF IV

\* What is masked under an IV is a word.
LEMMA WordTypes ==
    /\ \A b \in Nat : Plain(b) \in SUBSET Token
    /\ \A s \in Server, iv \in IV : Mask(s, iv) \in SUBSET Token
    /\ Junk \in SUBSET Token
    /\ \A b \in Nat, iv \in IV : Masked(b, iv) \in SUBSET Token
<1>1. \A b \in Nat : Plain(b) \in SUBSET Token
  BY DEF Plain, Token
<1>2. \A s \in Server, iv \in IV : Mask(s, iv) \in SUBSET Token
  <2> SUFFICES ASSUME NEW s \in Server, NEW iv \in IV
               PROVE  Mask(s, iv) \in SUBSET Token
    OBVIOUS
  <2>1. <<1, s, iv[1], iv[2], iv[3]>> \in Token
    BY IvParts DEF Token, Server
  <2> QED
    BY <2>1 DEF Mask
<1>3. Junk \in SUBSET Token
  BY DEF Junk, Token
<1>4. \A b \in Nat, iv \in IV : Masked(b, iv) \in SUBSET Token
  BY <1>1, <1>2, XorType DEF Masked, Server
<1> QED
  BY <1>1, <1>2, <1>3, <1>4

\* The masks of both servers come off again: step 5 of access().
LEMMA Unmask ==
    ASSUME NEW b, NEW iv
    PROVE  Xor(Masked(b, iv), Xor(Mask(0, iv), Mask(1, iv))) = Plain(b)
<1>1. \A x, y : Xor(Xor(x, y), y) = x
  BY DEF Xor
<1> QED
  BY <1>1 DEF Masked

\* An epoch of uploads fits the root, and 0 is a slot of it.
LEMMA SlotFacts ==
    /\ 0 \in Slot /\ 0 \in 0 .. EVICT_RATE - 1
    /\ \A n \in 0 .. EVICT_RATE - 1 : n \in Slot /\ (n + 1) % EVICT_RATE \in 0 .. EVICT_RATE - 1
    /\ \A n \in Slot : n \in PathIdx
<1>1. 0 \in Slot /\ 0 \in 0 .. EVICT_RATE - 1 /\ \A n \in 0 .. EVICT_RATE - 1 : n \in Slot
  BY Config DEF Slot
<1>2. \A n \in 0 .. EVICT_RATE - 1 : (n + 1) % EVICT_RATE \in 0 .. EVICT_RATE - 1
  BY Config, DivMod
<1> QED
  BY <1>1, <1>2, RootPosition

-----------------------------------------------------------------------------
(***************************************************************************)
(* The start: build() and the transfer of the tree.                         *)
(***************************************************************************)

\* Block b is built in place b - 1.
LEMMA BuiltPosition ==
    ASSUME NEW b \in Block
    PROVE  /\ b - 1 \in 0 .. NUM_BLOCK - 1
           /\ Built[b] = BuildPosition(b - 1)
<1> DEFINE order == [i \in 0 .. NUM_BLOCK - 1 |-> i + 1]
<1>1. b - 1 \in 0 .. NUM_BLOCK - 1 /\ b \in Nat
  BY BlocksFit DEF Block
<1>2. \A i \in 0 .. NUM_BLOCK - 1 : order[i] = b <=> i = b - 1
  BY <1>1, BlocksFit
<1>3. (CHOOSE i \in 0 .. NUM_BLOCK - 1 : order[i] = b) = b - 1
  BY <1>1, <1>2
<1> QED
  BY <1>1, <1>3 DEF Built, build

\* Every block is built in a leaf, in a slot of its own.
LEMMA BuiltFacts ==
    /\ \A b \in Block : /\ Built[b].pathID \in Leaf /\ Built[b].pathIdx \in PathIdx
                        /\ Built[b].pathIdx \div BUCKET_SIZE = HEIGHT
                        /\ NodeOf(Built, b) \in Node /\ SlotOf(Built, b) \in Slot
    /\ \A b, c \in Block :
          NodeOf(Built, b) = NodeOf(Built, c) /\ SlotOf(Built, b) = SlotOf(Built, c) => b = c
<1>1. ASSUME NEW b \in Block
      PROVE  /\ Built[b].pathID \in Leaf /\ Built[b].pathIdx \in PathIdx
             /\ Built[b].pathIdx \div BUCKET_SIZE = HEIGHT
             /\ NodeOf(Built, b) \in Node /\ SlotOf(Built, b) \in Slot
             /\ NodeOf(Built, b) = Built[b].pathID
  <2>1. /\ Built[b].pathID \in Leaf /\ Built[b].pathIdx \in PathIdx
        /\ Built[b].pathIdx \div BUCKET_SIZE = HEIGHT
    BY BuiltPosition, BuildPositionFacts
  <2>2. NodeOf(Built, b) = Built[b].pathID
    BY <2>1, FullPathFacts DEF NodeOf
  <2> QED
    BY <2>1, <2>2, PositionFacts
<1>2. ASSUME NEW b \in Block, NEW c \in Block,
             NodeOf(Built, b) = NodeOf(Built, c), SlotOf(Built, b) = SlotOf(Built, c)
      PROVE  b = c
  <2>1. b - 1 \in 0 .. NUM_BLOCK - 1 /\ c - 1 \in 0 .. NUM_BLOCK - 1
        /\ Built[b] = BuildPosition(b - 1) /\ Built[c] = BuildPosition(c - 1)
    BY BuiltPosition
  <2>2. /\ BuildPosition(b - 1).pathID = BuildPosition(c - 1).pathID
        /\ BuildPosition(b - 1).pathIdx % BUCKET_SIZE = BuildPosition(c - 1).pathIdx % BUCKET_SIZE
    BY <1>1, <1>2, <2>1 DEF SlotOf
  <2>3. b - 1 = c - 1
    BY <2>1, <2>2, BuildPositionInjective
  <2> QED
    BY <2>3, BlocksFit DEF Block
<1> QED
  BY <1>1, <1>2
\* The first state: the client has its tree, the servers have it too.
LEMMA InitFacts ==
    ASSUME Init
    PROVE  /\ pos_map \in Positions
           /\ \A b \in Block : /\ pos_map[b].pathIdx \div BUCKET_SIZE = HEIGHT
                               /\ pos_map[b].iv = BuiltIv(NodeOf(pos_map, b), SlotOf(pos_map, b))
           /\ disk \in [Server -> [Node -> [Slot -> SUBSET Token]]]
           /\ diskIv \in [Server -> [Node -> [Slot -> IV]]]
           /\ Fits(pos_map)
           /\ disk[0] = disk[1] /\ diskIv[0] = diskIv[1]
<1>1. ASSUME NEW b \in Block
      PROVE  /\ pos_map[b] = [pathID |-> Built[b].pathID, pathIdx |-> Built[b].pathIdx,
                              iv |-> BuiltIv(NodeOf(Built, b), SlotOf(Built, b))]
             /\ pos_map[b].pathIdx = Built[b].pathIdx
             /\ pos_map[b].iv = BuiltIv(NodeOf(Built, b), SlotOf(Built, b))
             /\ NodeOf(pos_map, b) = NodeOf(Built, b) /\ SlotOf(pos_map, b) = SlotOf(Built, b)
  <2>1. pos_map[b] = [pathID |-> Built[b].pathID, pathIdx |-> Built[b].pathIdx,
                      iv |-> BuiltIv(NodeOf(Built, b), SlotOf(Built, b))]
    BY DEF Init
  <2> QED
    BY <2>1 DEF NodeOf, SlotOf
<1>2. pos_map \in Positions
  <2>1. pos_map = [b \in Block |-> [pathID |-> Built[b].pathID, pathIdx |-> Built[b].pathIdx,
                      iv |-> BuiltIv(NodeOf(Built, b), SlotOf(Built, b))]]
    BY DEF Init
  <2>2. \A b \in Block : /\ Built[b].pathID \in Leaf /\ Built[b].pathIdx \in PathIdx
                         /\ BuiltIv(NodeOf(Built, b), SlotOf(Built, b)) \in IV
    BY BuiltFacts, IvTypes
  <2> QED
    BY <2>1, <2>2 DEF Positions
<1>3. \A b \in Block : /\ pos_map[b].pathIdx \div BUCKET_SIZE = HEIGHT
                       /\ pos_map[b].iv = BuiltIv(NodeOf(pos_map, b), SlotOf(pos_map, b))
                       /\ NodeOf(pos_map, b) \in Node /\ SlotOf(pos_map, b) \in Slot
  <2> SUFFICES ASSUME NEW b \in Block
               PROVE  /\ pos_map[b].pathIdx \div BUCKET_SIZE = HEIGHT
                      /\ pos_map[b].iv = BuiltIv(NodeOf(pos_map, b), SlotOf(pos_map, b))
                      /\ NodeOf(pos_map, b) \in Node /\ SlotOf(pos_map, b) \in Slot
    OBVIOUS
  <2>1. pos_map[b].pathIdx = Built[b].pathIdx
        /\ pos_map[b].iv = BuiltIv(NodeOf(Built, b), SlotOf(Built, b))
    BY <1>1
  <2>2. NodeOf(pos_map, b) = NodeOf(Built, b) /\ SlotOf(pos_map, b) = SlotOf(Built, b)
    BY <1>1
  <2>3. /\ Built[b].pathIdx \div BUCKET_SIZE = HEIGHT
        /\ NodeOf(Built, b) \in Node /\ SlotOf(Built, b) \in Slot
    BY BuiltFacts
  <2> QED
    BY <2>1, <2>2, <2>3
<1> DEFINE Here(n, s) == {b \in Block : pos_map[b].iv = BuiltIv(n, s)}
           Content(n, s) == IF Here(n, s) = {} THEN 0 ELSE CHOOSE b \in Here(n, s) : TRUE
<1>4. /\ disk = [srv \in Server |-> [n \in Node |-> [s \in Slot |->
                    Masked(Content(n, s), BuiltIv(n, s))]]]
      /\ diskIv = [srv \in Server |-> [n \in Node |-> [s \in Slot |-> BuiltIv(n, s)]]]
  BY DEF Init
<1>5. ASSUME NEW b \in Block
      PROVE  Content(NodeOf(pos_map, b), SlotOf(pos_map, b)) = b
  <2> DEFINE n == NodeOf(pos_map, b)
             s == SlotOf(pos_map, b)
  <2>1. b \in Here(n, s)
    BY <1>3
  <2>2. ASSUME NEW c \in Here(n, s) PROVE c = b
    <3>1. c \in Block /\ BuiltIv(NodeOf(pos_map, c), SlotOf(pos_map, c)) = BuiltIv(n, s)
      BY <1>3
    <3>2. NodeOf(pos_map, c) = n /\ SlotOf(pos_map, c) = s
      BY <3>1 DEF BuiltIv
    <3> QED
      BY <1>1, <3>1, <3>2, BuiltFacts
  <2>3. Here(n, s) = {b}
    BY <2>1, <2>2
  <2> QED
    BY <2>3
<1>6. \A n \in Node, s \in Slot : Content(n, s) \in Nat
  <2> SUFFICES ASSUME NEW n \in Node, NEW s \in Slot PROVE Content(n, s) \in Nat
    OBVIOUS
  <2>1. CASE Here(n, s) = {}
    BY <2>1
  <2>2. CASE Here(n, s) # {}
    <3>1. Content(n, s) \in Here(n, s)
      BY <2>2
    <3>2. Content(n, s) \in Block
      BY <3>1
    <3> HIDE DEF Content
    <3> QED
      BY <3>2, BlocksFit DEF Block
  <2> QED
    BY <2>1, <2>2
<1> HIDE DEF Content
<1>7. \A n \in Node, s \in Slot :
          /\ BuiltIv(n, s) \in IV
          /\ Masked(Content(n, s), BuiltIv(n, s)) \in SUBSET Token
  BY <1>6, IvTypes, WordTypes
<1>8. /\ disk \in [Server -> [Node -> [Slot -> SUBSET Token]]]
      /\ diskIv \in [Server -> [Node -> [Slot -> IV]]]
  BY <1>4, <1>7
<1>9. disk[0] = disk[1] /\ diskIv[0] = diskIv[1]
  BY <1>4 DEF Server
<1>10. ASSUME NEW s \in Server, NEW b \in Block PROVE FitsOn(s, pos_map, b)
  <2>1. /\ disk[s][NodeOf(pos_map, b)][SlotOf(pos_map, b)] =
                Masked(Content(NodeOf(pos_map, b), SlotOf(pos_map, b)), pos_map[b].iv)
        /\ diskIv[s][NodeOf(pos_map, b)][SlotOf(pos_map, b)] = pos_map[b].iv
    BY <1>3, <1>4
  <2> QED
    BY <1>5, <2>1 DEF FitsOn
<1> QED
  BY <1>2, <1>3, <1>8, <1>9, <1>10 DEF Fits

-----------------------------------------------------------------------------
(***************************************************************************)
(* Types.                                                                   *)
(***************************************************************************)

\* The first state has the types of the variables.
LEMMA InitTypeOK == Init => TypeOK
<1> SUFFICES ASSUME Init PROVE TypeOK
  OBVIOUS
<1>1. /\ pos_map \in Positions
      /\ disk \in [Server -> [Node -> [Slot -> SUBSET Token]]]
      /\ diskIv \in [Server -> [Node -> [Slot -> IV]]]
  BY InitFacts
<1>2. NoUpload \in Uploads
  BY IvTypes, WordTypes, SlotFacts, Leaves DEF NoUpload, Uploads
<1>3. numRead \in 0 .. EVICT_RATE - 1 /\ uploads \in 0 .. MaxUploads
  BY SlotFacts, SessionAssumption DEF Init
<1>4. saved \in [pos_map : Positions, numRead : 0 .. EVICT_RATE - 1, complete : BOOLEAN]
  BY <1>1, <1>3 DEF Init
<1>5. answer \in [Server -> SUBSET Token]
  BY WordTypes DEF Init
<1>6. request \in [blockID : Block \cup {0}, share : [Server -> SUBSET PathIdx]]
  BY DEF Init, NoRequest
<1>7. key \in [Server -> BOOLEAN]
  BY SessionAssumption DEF Init
<1>8. upload \in Uploads /\ buffer \in [Server -> Uploads]
  BY <1>2 DEF Init
<1>9. thread \in [Server -> {"off", "command", "payload", "done", "lost"}]
      /\ pc \in PC /\ phase \in [Server -> {"command", "key", "request", "block"}]
      /\ cut \in BOOLEAN
  BY DEF Init, Threads, PC
<1> QED
  BY <1>1, <1>3, <1>4, <1>5, <1>6, <1>7, <1>8, <1>9 DEF TypeOK

\* What a server stores is a block and an IV.
LEMMA StoreBlockType ==
    ASSUME TypeOK, NEW s \in Server, NEW up \in Uploads, StoreBlock(s, up)
    PROVE  /\ disk' \in [Server -> [Node -> [Slot -> SUBSET Token]]]
           /\ diskIv' \in [Server -> [Node -> [Slot -> IV]]]
           /\ buffer' \in [Server -> Uploads]
<1>1. up.slot \in Slot /\ up.word \in SUBSET Token /\ up.iv \in IV
  BY DEF Uploads
<1>2. disk' \in [Server -> [Node -> [Slot -> SUBSET Token]]]
  BY <1>1, Leaves DEF TypeOK, StoreBlock
<1>3. diskIv' \in [Server -> [Node -> [Slot -> IV]]]
  BY <1>1, Leaves DEF TypeOK, StoreBlock, StoredIv
<1>4. buffer' \in [Server -> Uploads]
  BY DEF TypeOK, StoreBlock
<1> QED
  BY <1>2, <1>3, <1>4

\* What a server has in its memory when it starts has its type.
LEMMA RestartedType ==
    ASSUME TypeOK, NEW s \in Server, Restarted(s)
    PROVE  /\ key' \in [Server -> BOOLEAN]
           /\ phase' \in [Server -> {"command", "key", "request", "block"}]
           /\ buffer' \in [Server -> Uploads]
           /\ UNCHANGED <<disk, diskIv>>
<1>1. NoUpload \in Uploads
  BY IvTypes, WordTypes, SlotFacts, Leaves DEF NoUpload, Uploads
<1> QED
  BY <1>1 DEF TypeOK, Restarted

\* The path of a leaf, as a server puts it together.
LEMMA PathVectorType ==
    ASSUME TypeOK, NEW s \in Server, NEW pathID \in Leaf
    PROVE  \A k \in PathIdx : PathVector(s, pathID)[k] \in SUBSET Token
<1> SUFFICES ASSUME NEW k \in PathIdx PROVE PathVector(s, pathID)[k] \in SUBSET Token
  OBVIOUS
<1>1. k \div BUCKET_SIZE \in Level /\ k % BUCKET_SIZE \in Slot
  BY PathIdxFacts
<1>2. FullPath[pathID][k \div BUCKET_SIZE] \in Node
  BY <1>1, FullPathFacts
<1>3. disk \in [Server -> [Node -> [Slot -> SUBSET Token]]]
  BY DEF TypeOK
<1>4. PathVector(s, pathID)[k] = disk[s][FullPath[pathID][k \div BUCKET_SIZE]][k % BUCKET_SIZE]
  BY DEF PathVector
<1> QED
  BY <1>1, <1>2, <1>3, <1>4

\* The steps of the client keep the types.
LEMMA ClientStepTypeOK ==
    ASSUME TypeOK, ClientInv,
           \/ \E b \in Block : Request(b)
           \/ \E newLeaf \in Leaf : Recover(newLeaf)
           \/ RecoverFails \/ Uploaded \/ OpenFile \/ Save
           \/ Load \/ LoadShort \/ LoadNext \/ LoadDone
           \/ Crash \/ CrashInExchange \/ CrashInWrite
    PROVE  TypeOK'
<1> USE DEF TypeOK
<1>1. ASSUME NEW b \in Block, Request(b) PROVE TypeOK'
  <2>1. PICK r \in SUBSET PathIdx :
            request' = [blockID |-> b, share |-> SharedVector(pos_map[b].pathIdx, r)]
    BY <1>1 DEF Request
  <2>2. pos_map[b].pathIdx \in PathIdx
    BY DEF Positions
  <2>3. SharedVector(pos_map[b].pathIdx, r) \in [Server -> SUBSET PathIdx]
    <3>1. Xor(r, {pos_map[b].pathIdx}) \in SUBSET PathIdx
      BY <2>2, XorType
    <3> QED
      BY <3>1 DEF SharedVector
  <2>4. request' \in [blockID : Block \cup {0}, share : [Server -> SUBSET PathIdx]]
    BY <2>1, <2>3
  <2>5. thread' \in [Server -> {"off", "command", "payload", "done", "lost"}]
    BY <1>1 DEF Request, Threads
  <2> QED
    BY <1>1, <2>4, <2>5 DEF Request, server, PC
<1>2. ASSUME NEW newLeaf \in Leaf, Recover(newLeaf) PROVE TypeOK'
  <2> DEFINE iv == DrawnIv(uploads')
             b  == request.blockID
  <2>1. uploads' = uploads + 1 /\ uploads' \in 1 .. MaxUploads /\ uploads' \in 0 .. MaxUploads
    BY <1>2, SessionAssumption DEF Recover, ClientInv
  <2>2. iv \in IV /\ b \in Block
    BY <1>2, <2>1, IvTypes DEF Recover, ClientInv
  <2> HIDE DEF iv, b
  <2>3. numRead \in Slot /\ numRead \in PathIdx /\ numRead' \in 0 .. EVICT_RATE - 1
    BY <1>2, SlotFacts DEF Recover, NextRead
  <2>4. /\ pos_map' = [pos_map EXCEPT ![b] =
                         [pathID |-> newLeaf, pathIdx |-> numRead, iv |-> iv]]
        /\ upload' = [slot |-> numRead, word |-> Masked(b, iv), iv |-> iv]
    BY <1>2 DEF Recover, iv, b
  <2>5. pos_map' \in Positions
    BY <2>2, <2>3, <2>4 DEF Positions
  <2>6. upload' \in Uploads
    <3>1. b \in Nat
      BY <2>2, BlocksFit DEF Block
    <3> QED
      BY <2>2, <2>3, <2>4, <3>1, WordTypes DEF Uploads
  <2>7. request' \in [blockID : Block \cup {0}, share : [Server -> SUBSET PathIdx]]
    BY <1>2 DEF Recover, NoRequest
  <2>8. answer' \in [Server -> SUBSET Token]
    BY <1>2, WordTypes DEF Recover
  <2>9. thread' \in [Server -> {"off", "command", "payload", "done", "lost"}] /\ pc' \in PC
    BY <1>2 DEF Recover, Threads, PC
  <2> QED
    BY <1>2, <2>1, <2>3, <2>5, <2>6, <2>7, <2>8, <2>9 DEF Recover, server
<1>3. CASE RecoverFails
  BY <1>3 DEF RecoverFails, server, PC
<1>4. CASE Uploaded
  BY <1>4 DEF Uploaded, server, PC, Threads
<1>5. CASE Save
  BY <1>5 DEF Save, LocalData, server, PC
<1>10. CASE OpenFile
  BY <1>10 DEF OpenFile, server, PC
<1>11. CASE LoadShort
  BY <1>11 DEF LoadShort, server, PC
<1>6. CASE Load
  <2>1. saved.pos_map \in Positions /\ saved.numRead \in 0 .. EVICT_RATE - 1
    OBVIOUS
  <2>2. thread' \in [Server -> {"off", "command", "payload", "done", "lost"}]
    BY <1>6 DEF Load, Threads
  <2> QED
    BY <1>6, <2>1, <2>2 DEF Load, server, PC
<1>7. CASE LoadNext
  BY <1>7 DEF LoadNext, server
<1>8. CASE LoadDone
  BY <1>8 DEF LoadDone, Threads, server, PC
<1>9. ASSUME Gone, cut' \in BOOLEAN PROVE TypeOK'
  <2>1. NoUpload \in Uploads
    BY IvTypes, WordTypes, SlotFacts, Leaves DEF NoUpload, Uploads
  <2>2. request' \in [blockID : Block \cup {0}, share : [Server -> SUBSET PathIdx]]
    BY <1>9 DEF Gone, NoRequest
  <2>3. answer' \in [Server -> SUBSET Token]
    BY <1>9, WordTypes DEF Gone
  <2>4. thread' \in [Server -> {"off", "command", "payload", "done", "lost"}] /\ pc' \in PC
    BY <1>9 DEF Gone, Threads, PC
  <2> QED
    BY <1>9, <2>1, <2>2, <2>3, <2>4 DEF Gone, server
<1> QED
  BY <1>1, <1>2, <1>3, <1>4, <1>5, <1>6, <1>7, <1>8, <1>9, <1>10, <1>11
     DEF Crash, CrashInExchange, CrashInWrite

\* The steps of a server keep the types.
LEMMA ServerStepTypeOK ==
    ASSUME TypeOK, PhaseInv, ClientInv, NEW s \in Server,
           Exchange(s) \/ RestartAlone(s) \/ RestartServing(s)
    PROVE  TypeOK'
<1> USE DEF TypeOK
<1>1. CASE TakeCommand(s)
  <2>1. pc \in Busy
    BY <1>1 DEF TakeCommand, PhaseInv
  <2>2. Announced \in {"command", "key", "request", "block"}
    BY <2>1 DEF Announced, Busy
  <2> QED
    BY <1>1, <2>2 DEF TakeCommand
<1>2. CASE TakeKey(s)
  BY <1>2 DEF TakeKey
<1>3. CASE TakeRequest(s)
  <2> DEFINE x == XorSum(PathVector(s, pos_map[request.blockID].pathID), request.share[s])
  <2>0. pc = "request"
    BY <1>3 DEF TakeRequest, PhaseInv, Announced, Busy
  <2>1. x \in SUBSET Token
    <3>1. request.blockID \in Block
      BY <2>0 DEF ClientInv
    <3>2. pos_map[request.blockID].pathID \in Leaf
      BY <3>1 DEF Positions
    <3>3. request.share[s] \in SUBSET PathIdx
      OBVIOUS
    <3> DEFINE f == PathVector(s, pos_map[request.blockID].pathID)
    <3>4. \A k \in request.share[s] : f[k] \in SUBSET Token
      BY <3>2, <3>3, PathVectorType
    <3> HIDE DEF f
    <3>5. XorSum(f, request.share[s]) \in SUBSET Token
      BY <3>4, XorSumType
    <3> QED
      BY <3>5 DEF f
  <2> HIDE DEF x
  <2>2. answer' = [answer EXCEPT ![s] = x]
    BY <1>3 DEF TakeRequest, x
  <2> QED
    BY <1>3, <2>1, <2>2 DEF TakeRequest
<1>4. CASE TakeBlock(s)
  <2>1. upload \in Uploads /\ StoreBlock(s, upload)
    BY <1>4 DEF TakeBlock, Payload
  <2> QED
    BY <1>4, <2>1, StoreBlockType DEF TakeBlock
<1>5. CASE MistakeCommand(s)
  <2>1. /\ disk' \in [Server -> [Node -> [Slot -> SUBSET Token]]]
        /\ diskIv' \in [Server -> [Node -> [Slot -> IV]]]
        /\ buffer' \in [Server -> Uploads]
    <3>1. CASE phase[s] = "block"
      <4>1. PICK slot \in Slot : StoreBlock(s, [slot |-> slot, word |-> buffer[s].word \cup Junk,
                                                iv |-> buffer[s].iv])
        BY <1>5, <3>1 DEF MistakeCommand, Uploads
      <4>2. buffer[s].word \in SUBSET Token /\ buffer[s].iv \in IV
        BY DEF Uploads
      <4>3. buffer[s].word \cup Junk \in SUBSET Token
        BY <4>2, WordTypes, XorType
      <4>4. [slot |-> slot, word |-> buffer[s].word \cup Junk, iv |-> buffer[s].iv] \in Uploads
        BY <4>2, <4>3 DEF Uploads
      <4> QED
        BY <4>1, <4>4, StoreBlockType
    <3>2. CASE phase[s] # "block"
      BY <1>5, <3>2 DEF MistakeCommand
    <3> QED
      BY <3>1, <3>2
  <2>2. key' \in [Server -> BOOLEAN]
    BY <1>5 DEF MistakeCommand
  <2> QED
    BY <1>5, <2>1, <2>2 DEF MistakeCommand
<1>6. CASE MistakePath(s)
  BY <1>6, RestartedType DEF MistakePath
<1>7. CASE MistakePayload(s)
  BY <1>7 DEF MistakePayload, server
<1>8. CASE RestartAlone(s)
  BY <1>8, RestartedType DEF RestartAlone, client
<1>9. CASE RestartServing(s)
  BY <1>9, RestartedType DEF RestartServing, client
<1> QED
  BY <1>1, <1>2, <1>3, <1>4, <1>5, <1>6, <1>7, <1>8, <1>9 DEF Exchange

\* Every step keeps the types.
LEMMA StepTypeOK == TypeOK /\ PhaseInv /\ ClientInv /\ [CrashNext]_vars => TypeOK'
<1> SUFFICES ASSUME TypeOK, PhaseInv, ClientInv, [CrashNext]_vars PROVE TypeOK'
  OBVIOUS
<1>1. CASE UNCHANGED vars
  BY <1>1 DEF TypeOK, vars, client, server
<1>2. CASE CrashNext
  BY <1>2, ClientStepTypeOK, ServerStepTypeOK DEF CrashNext, Next
<1> QED
  BY <1>1, <1>2

-----------------------------------------------------------------------------
(***************************************************************************)
(* What the servers wait for.                                               *)
(***************************************************************************)

\* Every step keeps the servers where the client's exchanges have them.
LEMMA StepPhaseInv == TypeOK /\ PhaseInv /\ [CrashNext]_vars => PhaseInv'
<1> SUFFICES ASSUME TypeOK, PhaseInv, [CrashNext]_vars PROVE PhaseInv'
  OBVIOUS
<1> DEFINE Inv(s) ==
        /\ pc \in {"menu", "save", "write", "evict", "aborted"} => phase[s] = "command"
        /\ pc \notin Busy => thread[s] \notin {"command", "payload"}
        /\ pc \in {"request", "upload"} =>
              /\ thread[s] \in {"command", "payload", "done"}
              /\ phase[s] = IF thread[s] = "payload" THEN Announced ELSE "command"
        /\ pc = "load" =>
              /\ thread[s] = "payload" => phase[s] \in {"command", "key"}
              /\ thread[s] \in {"done", "lost"} => phase[s] = "command"
<1>1. /\ \A s \in Server : Inv(s)
      /\ thread \in [Server -> {"off", "command", "payload", "done", "lost"}]
      /\ phase \in [Server -> {"command", "key", "request", "block"}]
      /\ pc \in PC /\ Server = {0, 1}
  BY DEF PhaseInv, TypeOK, Server
<1> SUFFICES ASSUME NEW s \in Server PROVE Inv(s)'
  BY DEF PhaseInv
<1> USE <1>1 DEF Busy, PC
<1>2. CASE \E b \in Block : Request(b)
  BY <1>2 DEF Request, Threads, server
<1>3. CASE \E newLeaf \in Leaf : Recover(newLeaf)
  BY <1>3 DEF Recover, Joined, Threads, server
<1>4. CASE RecoverFails
  BY <1>4 DEF RecoverFails, Joined, server
<1>5. CASE Uploaded
  BY <1>5 DEF Uploaded, Joined, Threads, server
<1>6. CASE OpenFile \/ Save
  BY <1>6 DEF OpenFile, Save, server
<1>7. CASE Load \/ LoadShort
  BY <1>7 DEF Load, LoadShort, Threads, server
<1>8. CASE LoadNext
  BY <1>8 DEF LoadNext, server
<1>9. CASE LoadDone
  BY <1>9 DEF LoadDone, KeysSent, Joined, Threads, server
<1>10. CASE Crash \/ CrashInExchange \/ CrashInWrite
  BY <1>10 DEF Crash, CrashInExchange, CrashInWrite, Gone, Threads, server
<1>11. ASSUME NEW r \in Server, Exchange(r) PROVE Inv(s)'
  <2>1. CASE TakeCommand(r)
    BY <2>1 DEF TakeCommand, Announced
  <2>2. CASE TakeKey(r)
    BY <2>2 DEF TakeKey, Announced
  <2>3. CASE TakeRequest(r)
    BY <2>3 DEF TakeRequest, Announced
  <2>4. CASE TakeBlock(r)
    BY <2>4 DEF TakeBlock, Announced
  <2>5. CASE MistakeCommand(r)
    BY <2>5 DEF MistakeCommand, Announced
  <2>6. CASE MistakePath(r)
    BY <2>6 DEF MistakePath, Restarted, Announced
  <2>7. CASE MistakePayload(r)
    BY <2>7 DEF MistakePayload, Announced, server
  <2> QED
    BY <1>11, <2>1, <2>2, <2>3, <2>4, <2>5, <2>6, <2>7 DEF Exchange
<1>12. CASE \E r \in Server : RestartAlone(r) \/ RestartServing(r)
  BY <1>12 DEF RestartAlone, RestartServing, Restarted, client
<1>13. CASE UNCHANGED vars
  BY <1>13 DEF vars, client, server, Announced
<1> QED
  BY <1>2, <1>3, <1>4, <1>5, <1>6, <1>7, <1>8, <1>9, <1>10, <1>11, <1>12, <1>13
     DEF CrashNext, Next

-----------------------------------------------------------------------------
(***************************************************************************)
(* The client and its file.                                                 *)
(***************************************************************************)

\* The servers' steps are none of the client's business.
LEMMA StepClientUnchanged ==
    ASSUME NEW s \in Server, Exchange(s) \/ RestartAlone(s) \/ RestartServing(s)
    PROVE  UNCHANGED <<pos_map, numRead, uploads, request, upload, pc, saved>>
  BY DEF Exchange, TakeCommand, TakeKey, TakeRequest, TakeBlock, MistakeCommand,
         MistakePath, MistakePayload, RestartAlone, RestartServing, client

\* Every step keeps the client at most one access ahead of its file.
LEMMA StepClientInv == TypeOK /\ ClientInv /\ [CrashNext]_vars => ClientInv'
<1> SUFFICES ASSUME TypeOK, ClientInv, [CrashNext]_vars PROVE ClientInv'
  OBVIOUS
<1>0. /\ saved.pos_map \in Positions /\ saved.numRead \in 0 .. EVICT_RATE - 1
      /\ pos_map \in Positions /\ numRead \in 0 .. EVICT_RATE - 1
      /\ uploads \in Nat
  BY SessionAssumption DEF TypeOK
<1>1. CASE \E b \in Block : Request(b)
  <2>1. PICK b \in Block, r \in SUBSET PathIdx :
            request' = [blockID |-> b, share |-> SharedVector(pos_map[b].pathIdx, r)]
    BY <1>1 DEF Request
  <2>2. request'.blockID = b
        /\ request'.share[1] = Xor(request'.share[0], {pos_map[b].pathIdx})
    BY <2>1 DEF SharedVector, Server
  <2> QED
    BY <1>1, <2>2 DEF Request, ClientInv, RootFree
<1>2. ASSUME NEW newLeaf \in Leaf, Recover(newLeaf) PROVE ClientInv'
  <2>0. PICK b : b = request.blockID
    OBVIOUS
  <2>1. /\ pc = "request" /\ pc' = "upload" /\ saved' = saved
        /\ uploads' = uploads + 1 /\ numRead' = (numRead + 1) % EVICT_RATE
        /\ pos_map' = [pos_map EXCEPT ![b] = [pathID |-> newLeaf, pathIdx |-> numRead,
                                              iv |-> DrawnIv(uploads')]]
        /\ upload' = [slot |-> numRead, word |-> Masked(b, DrawnIv(uploads')),
                      iv |-> DrawnIv(uploads')]
    BY <1>2, <2>0 DEF Recover, NextRead
  <2>2. b \in Block /\ pos_map = saved.pos_map /\ numRead = saved.numRead
        /\ RootFree(saved.pos_map, saved.numRead)
    BY <2>0, <2>1 DEF ClientInv
  <2>3. pos_map' = Moved(b, newLeaf)'
    BY <2>1, <2>2 DEF Moved
  <2>4. upload' = [slot |-> saved'.numRead, word |-> Masked(b, DrawnIv(uploads')),
                   iv |-> DrawnIv(uploads')]
    BY <2>1, <2>2
  <2>5. uploads' >= 1 /\ RootFree(saved.pos_map, saved.numRead)'
        /\ numRead' = (saved'.numRead + 1) % EVICT_RATE
    BY <1>0, <2>1, <2>2 DEF RootFree
  <2> QED
    BY <2>1, <2>2, <2>3, <2>4, <2>5 DEF ClientInv
<1>3. CASE RecoverFails
  BY <1>3 DEF RecoverFails, ClientInv, RootFree
<1>4. CASE Uploaded
  BY <1>4 DEF Uploaded, ClientInv, RootFree, Moved
<1>11. CASE OpenFile
  <2>1. /\ saved'.pos_map = saved.pos_map /\ saved'.numRead = saved.numRead
        /\ pc = "save" /\ pc' = "write"
        /\ UNCHANGED <<pos_map, numRead, uploads, request, upload>>
    BY <1>0, <1>11 DEF OpenFile
  <2>2. \A b \in Block, leaf \in Leaf : Moved(b, leaf)' = Moved(b, leaf)
    BY <2>1 DEF Moved
  <2>3. /\ RootFree(saved.pos_map, saved.numRead) /\ uploads >= 1 /\ numRead # 0
        /\ numRead = (saved.numRead + 1) % EVICT_RATE
        /\ \E b \in Block, leaf \in Leaf : pos_map = Moved(b, leaf)
    BY <2>1 DEF ClientInv
  <2>4. /\ RootFree(saved.pos_map, saved.numRead)'
        /\ \E b \in Block, leaf \in Leaf : pos_map' = Moved(b, leaf)'
    BY <2>1, <2>2, <2>3 DEF RootFree
  <2> QED
    BY <2>1, <2>3, <2>4 DEF ClientInv
<1>5. CASE Save
  <2>1. /\ pc = "write" /\ pc' = "menu" /\ UNCHANGED <<pos_map, numRead>>
        /\ saved'.pos_map = pos_map /\ saved'.numRead = numRead
    BY <1>5 DEF Save, LocalData
  <2>2. /\ RootFree(saved.pos_map, saved.numRead) /\ numRead # 0
        /\ numRead = (saved.numRead + 1) % EVICT_RATE
    BY <2>1 DEF ClientInv
  <2>3. PICK b \in Block, leaf \in Leaf : pos_map = Moved(b, leaf)
    BY <2>1 DEF ClientInv
  <2>4. numRead = saved.numRead + 1
    <3> DEFINE n == saved.numRead
    <3>1. n \in 0 .. EVICT_RATE - 1 /\ EVICT_RATE \in Nat \ {0}
      BY <1>0, Config
    <3>2. CASE n + 1 < EVICT_RATE
      BY <2>2, <3>1, <3>2
    <3>3. CASE n + 1 = EVICT_RATE
      <4>1. EVICT_RATE % EVICT_RATE = 0
        BY <3>1
      <4> QED
        BY <2>2, <3>3, <4>1
    <3> QED
      BY <3>1, <3>2, <3>3
  <2>5. ASSUME NEW c \in Block, pos_map[c].pathIdx \div BUCKET_SIZE = 0
        PROVE  pos_map[c].pathIdx < numRead
    <3>1. CASE c = b
      <4>1. pos_map[c].pathIdx = saved.numRead
        BY <1>0, <2>3, <3>1 DEF Moved, Positions
      <4> QED
        BY <1>0, <2>4, <4>1
    <3>2. CASE c # b
      <4>1. pos_map[c] = saved.pos_map[c]
        BY <1>0, <2>3, <3>2 DEF Moved, Positions
      <4>2. saved.pos_map[c].pathIdx < saved.numRead
        BY <2>2, <2>5, <4>1 DEF RootFree
      <4>3. saved.pos_map[c].pathIdx \in Int
        BY <1>0 DEF Positions, PathIdx
      <4> QED
        BY <1>0, <2>4, <4>1, <4>2, <4>3
    <3> QED
      BY <3>1, <3>2
  <2>6. RootFree(saved.pos_map, saved.numRead)'
    BY <2>1, <2>5 DEF RootFree
  <2> QED
    BY <2>1, <2>6 DEF ClientInv
<1>6. CASE Load \/ LoadShort \/ LoadNext \/ LoadDone
  BY <1>6 DEF Load, LoadShort, LoadNext, LoadDone, ClientInv, RootFree
<1>7. CASE Crash \/ CrashInExchange \/ CrashInWrite
  BY <1>7 DEF Crash, CrashInExchange, CrashInWrite, Gone, ClientInv, RootFree
<1>8. ASSUME UNCHANGED <<pos_map, numRead, uploads, request, upload, pc, saved>>
      PROVE  ClientInv'
  BY <1>8 DEF ClientInv, RootFree, Moved
<1>9. CASE \E s \in Server : Exchange(s) \/ RestartAlone(s) \/ RestartServing(s)
  BY <1>8, <1>9, StepClientUnchanged
<1>10. CASE UNCHANGED vars
  BY <1>8, <1>10 DEF vars, client
<1> QED
  BY <1>1, <1>2, <1>3, <1>4, <1>5, <1>6, <1>7, <1>9, <1>10, <1>11 DEF CrashNext, Next

-----------------------------------------------------------------------------
(***************************************************************************)
(* The copies of the servers.                                               *)
(***************************************************************************)

\* A block stored in a root slot leaves what is in other slots alone.
LEMMA StoreFits ==
    ASSUME TypeOK, NEW map \in Positions, NEW b \in Block,
           NEW s \in Server, NEW r \in Server, NEW up, up.slot \in Slot,
           StoreBlock(r, up), map[b].pathIdx # up.slot,
           FitsOn(s, map, b)
    PROVE  FitsOn(s, map, b)'
<1> DEFINE n == NodeOf(map, b)
           k == SlotOf(map, b)
<1>1. map[b].pathID \in Leaf /\ map[b].pathIdx \in PathIdx
  BY DEF Positions
<1>2. n \in Node /\ k \in Slot /\ ~(n = 0 /\ k = up.slot)
  BY <1>1, PositionFacts
<1> HIDE DEF n, k
<1>3. disk'[s][n][k] = disk[s][n][k] /\ diskIv'[s][n][k] = diskIv[s][n][k]
  <2>1. /\ disk \in [Server -> [Node -> [Slot -> SUBSET Token]]]
        /\ diskIv \in [Server -> [Node -> [Slot -> IV]]]
    BY DEF TypeOK
  <2>2. /\ disk' = [disk EXCEPT ![r][0][up.slot] = up.word]
        /\ diskIv' = [diskIv EXCEPT ![r][0][up.slot] = StoredIv(r, up)]
    BY DEF StoreBlock
  <2> QED
    BY <1>2, <2>1, <2>2, Leaves
<1> QED
  BY <1>3 DEF FitsOn, n, k

\* No block of the file is in the slot of the next upload.
LEMMA SavedSlotFree ==
    ASSUME TypeOK, ClientInv, NEW b \in Block
    PROVE  saved.pos_map[b].pathIdx # saved.numRead
<1>1. saved.numRead \in Slot /\ saved.numRead \in Int
  BY SlotFacts, Config DEF TypeOK
<1>2. saved.numRead \div BUCKET_SIZE = 0
  BY <1>1, RootPosition
<1> QED
  BY <1>1, <1>2 DEF ClientInv, RootFree

\* The two answers of a retrieval and the masks of the block add up to it,
\* whatever the random share was.
LEMMA AnswersRecover ==
    ASSUME TypeOK, ClientInv, CopyInv, ~cut, pc = "request", Joined
    PROVE  Recovered = Plain(request.blockID)
<1>1. PICK b \in Block : b = request.blockID
  BY DEF ClientInv
<1>2. PICK loc \in PathIdx, leaf \in Leaf, iv \in IV :
          pos_map[b].pathIdx = loc /\ pos_map[b].pathID = leaf /\ pos_map[b].iv = iv
  BY DEF TypeOK, Positions
<1> DEFINE R == request.share[0]
           f == PathVector(0, leaf)
           g == PathVector(1, leaf)
<1>3. R \subseteq PathIdx /\ IsFiniteSet(R) /\ request.share[1] = Xor(R, {loc})
  <2>1. R \subseteq PathIdx
    BY DEF TypeOK, Server
  <2>2. (HEIGHT + 1) * BUCKET_SIZE - 1 \in Int
    BY Config, Z3
  <2>3. IsFiniteSet(PathIdx)
    BY <2>2, FS_Interval DEF PathIdx
  <2>4. request.share[1] = Xor(R, {loc})
    BY <1>1, <1>2 DEF ClientInv
  <2> QED
    BY <2>1, <2>3, <2>4, FS_Subset
<1>4. \A k \in PathIdx : f[k] = g[k]
  <2> SUFFICES ASSUME NEW k \in PathIdx PROVE f[k] = g[k]
    OBVIOUS
  <2>1. k \div BUCKET_SIZE \in Level /\ k % BUCKET_SIZE \in Slot
    BY PathIdxFacts
  <2>2. FullPath[leaf][k \div BUCKET_SIZE] \in Node
    BY <2>1, FullPathFacts
  <2>3. disk[0][FullPath[leaf][k \div BUCKET_SIZE]][k % BUCKET_SIZE] =
        disk[1][FullPath[leaf][k \div BUCKET_SIZE]][k % BUCKET_SIZE]
    BY <2>1, <2>2 DEF CopyInv
  <2> QED
    BY <2>3 DEF PathVector
<1>5. f[loc] = Masked(b, iv)
  <2>1. FitsOn(0, pos_map, b)
    BY DEF CopyInv, ClientInv, Fits, Server
  <2> QED
    BY <1>2, <2>1 DEF FitsOn, NodeOf, SlotOf, PathVector
<1>6. answer[0] = XorSum(f, R) /\ answer[1] = XorSum(g, Xor(R, {loc}))
  BY <1>1, <1>2, <1>3 DEF CopyInv, Joined, Server
<1> HIDE DEF f, g, R
<1>7. answer[1] = XorSum(f, Xor(R, {loc}))
  <2>1. \A k \in Xor(R, {loc}) : f[k] = g[k]
    BY <1>3, <1>4 DEF Xor
  <2> QED
    BY <1>6, <2>1, XorSumEqual
<1>8. Xor(answer[0], answer[1]) = Masked(b, iv)
  <2>1. Xor(XorSum(f, R), XorSum(f, Xor(R, {loc}))) = f[loc]
    BY <1>3, XorSumShares
  <2> QED
    BY <1>5, <1>6, <1>7, <2>1
<1> QED
  BY <1>1, <1>2, <1>8, Unmask DEF Recovered

\* When both servers have acknowledged an upload, both have it: the copies
\* agree again, and fit the position map of the client.
LEMMA UploadComplete ==
    ASSUME TypeOK, ClientInv, CopyInv, ~cut, pc = "upload", Joined
    PROVE  /\ Fits(pos_map)
           /\ \A n \in Node, slot \in Slot : /\ disk[0][n][slot] = disk[1][n][slot]
                                             /\ diskIv[0][n][slot] = diskIv[1][n][slot]
<1>1. PICK b \in Block, leaf \in Leaf :
          /\ pos_map = Moved(b, leaf)
          /\ upload = [slot |-> saved.numRead, word |-> Masked(b, DrawnIv(uploads)),
                       iv |-> DrawnIv(uploads)]
  BY DEF ClientInv
<1>2. \A s \in Server : /\ disk[s][0][upload.slot] = upload.word
                        /\ diskIv[s][0][upload.slot] = upload.iv
  BY DEF CopyInv, Joined
<1>3. saved.pos_map \in Positions /\ saved.numRead \in Slot
  BY SlotFacts DEF TypeOK
<1>4. ASSUME NEW s \in Server, NEW c \in Block PROVE FitsOn(s, pos_map, c)
  <2>1. CASE c = b
    <3>1. pos_map[c] = [pathID |-> leaf, pathIdx |-> saved.numRead, iv |-> DrawnIv(uploads)]
      BY <1>1, <1>3, <2>1 DEF Moved, Positions
    <3>2. NodeOf(pos_map, c) = 0 /\ SlotOf(pos_map, c) = saved.numRead
      BY <1>3, <3>1, RootPosition, FullPathFacts DEF NodeOf, SlotOf
    <3> QED
      BY <1>1, <1>2, <2>1, <3>1, <3>2 DEF FitsOn
  <2>2. CASE c # b
    <3>1. pos_map[c] = saved.pos_map[c]
      BY <1>1, <1>3, <2>2 DEF Moved, Positions
    <3>2. FitsOn(s, saved.pos_map, c)
      BY DEF CopyInv, Fits
    <3> QED
      BY <3>1, <3>2 DEF FitsOn, NodeOf, SlotOf
  <2> QED
    BY <2>1, <2>2
<1>5. ASSUME NEW n \in Node, NEW slot \in Slot
      PROVE  disk[0][n][slot] = disk[1][n][slot] /\ diskIv[0][n][slot] = diskIv[1][n][slot]
  <2>1. CASE n = 0 /\ slot = upload.slot
    BY <1>2, <2>1 DEF Server
  <2>2. CASE ~(n = 0 /\ slot = upload.slot)
    <3>1. <<n, slot>> # <<0, upload.slot>>
      BY <2>2
    <3> QED
      BY <3>1 DEF CopyInv
  <2> QED
    BY <2>1, <2>2
<1> QED
  BY <1>4, <1>5 DEF Fits

\* What servers may wait for when nothing was cut off.
Waits(s) ==
    /\ phase[s] = "block" => pc = "upload" /\ thread[s] = "payload"
    /\ phase[s] = "key" => pc = "load" /\ thread[s] = "payload"
    /\ pc = "load" /\ thread[s] = "payload" => phase[s] = "key"

\* A step that writes to no disk keeps the copies if it completes nothing.
LEMMA DiskUnchanged ==
    ASSUME CopyInv, ~cut, UNCHANGED <<disk, diskIv, saved>>,
           \A s \in Server : Waits(s)',
           pc' # "aborted",
           pc' \in {"save", "write", "evict"} => UNCHANGED <<pc, pos_map>>,
           pc = "write" => pc' = "write",
           pc = "upload" => UNCHANGED <<pc, upload>>,
           \A s \in Server : pc' \in {"upload", "request"} /\ thread'[s] = "done" =>
               /\ UNCHANGED <<pc, request, pos_map>>
               /\ thread[s] = "done" /\ answer'[s] = answer[s]
    PROVE  CopyInv'
<1>1. Fits(saved.pos_map)' /\ (pc' \in {"save", "write", "evict"} => Fits(pos_map)')
  <2>1. Fits(saved.pos_map)'
    <3>1. Fits(saved.pos_map)
      BY DEF CopyInv
    <3> QED
      BY <3>1 DEF Fits, FitsOn, NodeOf, SlotOf
  <2>2. ASSUME pc' \in {"save", "write", "evict"} PROVE Fits(pos_map)'
    <3>1. Fits(pos_map)
      BY <2>2 DEF CopyInv
    <3> QED
      BY <2>2, <3>1 DEF Fits, FitsOn, NodeOf, SlotOf
  <2> QED
    BY <2>1, <2>2
<1>2. ASSUME NEW n \in Node, NEW slot \in Slot,
             pc' = "upload" => <<n, slot>> # <<0, upload'.slot>>
      PROVE  disk'[0][n][slot] = disk'[1][n][slot] /\ diskIv'[0][n][slot] = diskIv'[1][n][slot]
  BY <1>2 DEF CopyInv
<1>3. ASSUME NEW s \in Server, pc' = "upload", thread'[s] = "done"
      PROVE  /\ disk'[s][0][upload'.slot] = upload'.word
             /\ diskIv'[s][0][upload'.slot] = upload'.iv
  BY <1>3 DEF CopyInv
<1>4. ASSUME NEW s \in Server, pc' = "request", thread'[s] = "done"
      PROVE  answer'[s] = XorSum(PathVector(s, pos_map[request.blockID].pathID),
                                 request.share[s])'
  <2>1. answer[s] = XorSum(PathVector(s, pos_map[request.blockID].pathID), request.share[s])
    BY <1>4 DEF CopyInv
  <2> QED
    BY <1>4, <2>1 DEF PathVector
<1> QED
  BY <1>1, <1>2, <1>3, <1>4 DEF CopyInv, Waits

\* Every step that cuts nothing off keeps the copies.
LEMMA StepCopyInv ==
    TypeOK /\ PhaseInv /\ ClientInv /\ CopyInv /\ [CrashNext]_vars => CopyInv'
<1> SUFFICES ASSUME TypeOK, PhaseInv, ClientInv, CopyInv, [CrashNext]_vars, ~cut'
             PROVE  CopyInv'
  BY DEF CopyInv
<1>0. ~cut /\ Server = {0, 1}
      /\ thread \in [Server -> {"off", "command", "payload", "done", "lost"}]
      /\ phase \in [Server -> {"command", "key", "request", "block"}]
  <2>1. cut' = cut \/ cut' = TRUE
    BY DEF CrashNext, Next, Request, Recover, RecoverFails, Uploaded, OpenFile, Save, Load,
           LoadShort, LoadNext, LoadDone, Exchange, TakeCommand, TakeKey, TakeRequest, TakeBlock,
           MistakeCommand, MistakePath, MistakePayload, RestartAlone, Crash,
           CrashInExchange, CrashInWrite, RestartServing, vars
  <2> QED
    BY <2>1 DEF TypeOK, Server
<1>a. \A s \in Server : Waits(s)
  BY <1>0 DEF CopyInv, Waits
<1>1. CASE \E b \in Block : Request(b)
  <2>1. \A s \in Server : Waits(s)' /\ thread'[s] = "command"
    BY <1>0, <1>a, <1>1 DEF Request, Threads, server, Waits
  <2> QED
    BY <1>0, <1>1, <2>1, DiskUnchanged DEF Request, server
<1>2. CASE \E newLeaf \in Leaf : Recover(newLeaf)
  <2>1. \A s \in Server : Waits(s)' /\ thread'[s] = "command"
    BY <1>0, <1>a, <1>2 DEF Recover, Joined, Threads, server, Waits
  <2> QED
    BY <1>0, <1>2, <2>1, DiskUnchanged DEF Recover, server
<1>3. CASE RecoverFails
  BY <1>0, <1>3, AnswersRecover DEF RecoverFails
<1>4. CASE Uploaded
  <2>1. pc = "upload" /\ Joined /\ pc' \in {"save", "evict"}
        /\ UNCHANGED <<pos_map, disk, diskIv, saved, phase>>
    BY <1>4 DEF Uploaded, server
  <2>2. Fits(pos_map)' /\ Fits(saved.pos_map)'
    <3>1. Fits(pos_map) /\ Fits(saved.pos_map)
      BY <1>0, <2>1, UploadComplete DEF CopyInv
    <3> QED
      BY <2>1, <3>1 DEF Fits, FitsOn, NodeOf, SlotOf
  <2>3. \A n \in Node, slot \in Slot : /\ disk'[0][n][slot] = disk'[1][n][slot]
                                       /\ diskIv'[0][n][slot] = diskIv'[1][n][slot]
    BY <1>0, <2>1, UploadComplete
  <2>4. \A s \in Server : phase'[s] = "command"
    BY <2>1 DEF PhaseInv, Joined
  <2>5. saved'.complete
    BY <1>0, <2>1 DEF CopyInv
  <2> QED
    BY <2>1, <2>2, <2>3, <2>4, <2>5 DEF CopyInv
<1>15. CASE OpenFile
  <2>1. /\ pc = "save" /\ pc' = "write" /\ saved'.pos_map = saved.pos_map
        /\ UNCHANGED <<pos_map, disk, diskIv, phase, thread>>
    BY <1>15 DEF OpenFile, TypeOK, server
  <2>5. Fits(saved.pos_map) /\ Fits(pos_map)
    BY <1>0, <2>1 DEF CopyInv
  <2>2. Fits(saved.pos_map)' /\ Fits(pos_map)'
    BY <2>1, <2>5 DEF Fits, FitsOn, NodeOf, SlotOf
  <2>3. \A n \in Node, slot \in Slot : /\ disk'[0][n][slot] = disk'[1][n][slot]
                                       /\ diskIv'[0][n][slot] = diskIv'[1][n][slot]
    BY <1>0, <2>1 DEF CopyInv
  <2>4. \A s \in Server : phase'[s] = "command"
    BY <2>1 DEF PhaseInv
  <2> QED
    BY <2>1, <2>2, <2>3, <2>4 DEF CopyInv
<1>5. CASE Save
  <2>1. /\ pc = "write" /\ pc' = "menu" /\ saved'.pos_map = pos_map /\ saved'.complete
        /\ UNCHANGED <<disk, diskIv, phase, thread>>
    BY <1>5 DEF Save, LocalData, server
  <2>2. Fits(saved.pos_map)'
    BY <1>0, <2>1 DEF CopyInv, Fits, FitsOn, NodeOf, SlotOf
  <2>3. \A n \in Node, slot \in Slot : /\ disk'[0][n][slot] = disk'[1][n][slot]
                                       /\ diskIv'[0][n][slot] = diskIv'[1][n][slot]
    BY <1>0, <2>1 DEF CopyInv
  <2>4. \A s \in Server : phase'[s] = "command"
    BY <2>1 DEF PhaseInv
  <2> QED
    BY <2>1, <2>2, <2>3, <2>4 DEF CopyInv
<1>6. CASE Load
  <2>1. \A s \in Server : Waits(s)'
    BY <1>0, <1>a, <1>6 DEF Load, Threads, server, Waits
  <2> QED
    BY <1>0, <1>6, <2>1, DiskUnchanged DEF Load, server
<1>14. CASE LoadShort
  BY <1>0, <1>14 DEF LoadShort, CopyInv
<1>7. CASE LoadNext
  <2>1. \A s \in Server : Waits(s)'
    BY <1>0, <1>a, <1>7 DEF LoadNext, server, Waits
  <2> QED
    BY <1>0, <1>7, <2>1, DiskUnchanged DEF LoadNext, server
<1>8. CASE LoadDone
  <2>1. \A s \in Server : Waits(s)'
    BY <1>0, <1>a, <1>8 DEF LoadDone, KeysSent, Joined, Threads, server, Waits
  <2> QED
    BY <1>0, <1>8, <2>1, DiskUnchanged DEF LoadDone, server
<1>9. CASE Crash
  <2>1. \A s \in Server : Waits(s)'
    BY <1>0, <1>a, <1>9 DEF Crash, Gone, Threads, server, Waits
  <2> QED
    BY <1>0, <1>9, <2>1, DiskUnchanged DEF Crash, Gone, server
<1>10. CASE CrashInExchange \/ CrashInWrite \/ \E r \in Server : RestartServing(r)
  BY <1>10 DEF CrashInExchange, CrashInWrite, RestartServing
<1>11. ASSUME NEW r \in Server, RestartAlone(r) PROVE CopyInv'
  <2>1. \A s \in Server : Waits(s)'
    BY <1>0, <1>a, <1>11 DEF RestartAlone, Restarted, client, Waits
  <2> QED
    BY <1>0, <1>11, <2>1, DiskUnchanged DEF RestartAlone, Restarted, client
<1>12. ASSUME NEW r \in Server, Exchange(r) PROVE CopyInv'
  <2>1. CASE TakeCommand(r)
    <3>1. pc \in Busy
      BY <2>1 DEF TakeCommand, PhaseInv
    <3>2. \A s \in Server : Waits(s)'
      BY <1>0, <1>a, <2>1, <3>1 DEF TakeCommand, Announced, Busy, Waits
    <3> QED
      BY <1>0, <2>1, <3>1, <3>2, DiskUnchanged DEF TakeCommand, Busy
  <2>2. CASE TakeKey(r)
    <3>1. pc = "load"
      BY <1>a, <2>2 DEF TakeKey, Waits
    <3>2. \A s \in Server : Waits(s)'
      BY <1>0, <1>a, <2>2, <3>1 DEF TakeKey, Waits
    <3> QED
      BY <1>0, <2>2, <3>1, <3>2, DiskUnchanged DEF TakeKey
  <2>3. CASE TakeRequest(r)
    <3>1. pc = "request"
      BY <2>3 DEF TakeRequest, PhaseInv, Announced, Busy
    <3>2. answer \in [Server -> SUBSET Token]
      BY DEF TypeOK
    <3>3. \A s \in Server : Waits(s)'
      BY <1>0, <1>a, <2>3, <3>1 DEF TakeRequest, Waits
    <3>4. UNCHANGED <<pos_map, request, disk, diskIv, saved, pc>>
      BY <2>3 DEF TakeRequest
    <3>5. Fits(saved.pos_map)'
      <4>1. Fits(saved.pos_map)
        BY <1>0 DEF CopyInv
      <4> QED
        BY <3>4, <4>1 DEF Fits, FitsOn, NodeOf, SlotOf
    <3>6. \A s \in Server : thread'[s] = "done" =>
              answer'[s] = XorSum(PathVector(s, pos_map[request.blockID].pathID),
                                  request.share[s])
      <4> SUFFICES ASSUME NEW s \in Server, thread'[s] = "done"
                   PROVE  answer'[s] = XorSum(PathVector(s, pos_map[request.blockID].pathID),
                                              request.share[s])
        OBVIOUS
      <4>1. CASE s = r
        BY <2>3, <3>2, <4>1 DEF TakeRequest
      <4>2. CASE s # r
        <5>1. thread[s] = "done" /\ answer'[s] = answer[s]
          BY <1>0, <2>3, <3>2, <4>2 DEF TakeRequest
        <5> QED
          BY <1>0, <3>1, <5>1 DEF CopyInv
      <4> QED
        BY <4>1, <4>2
    <3>7. \A s \in Server : thread'[s] = "done" =>
              answer'[s] = XorSum(PathVector(s, pos_map[request.blockID].pathID),
                                  request.share[s])'
      BY <3>4, <3>6 DEF PathVector
    <3>8. \A n \in Node, slot \in Slot : /\ disk'[0][n][slot] = disk'[1][n][slot]
                                         /\ diskIv'[0][n][slot] = diskIv'[1][n][slot]
      BY <1>0, <3>1, <3>4 DEF CopyInv
    <3>9. saved'.complete
      BY <1>0, <3>1, <3>4 DEF CopyInv
    <3> QED
      BY <3>1, <3>3, <3>4, <3>5, <3>7, <3>8, <3>9 DEF CopyInv, Waits
  <2>4. CASE TakeBlock(r)
    <3>1. pc = "upload" /\ thread[r] = "payload" /\ StoreBlock(r, upload) /\ phase[r] = "block"
      BY <1>0, <2>4 DEF TakeBlock, Payload, CopyInv
    <3>2. UNCHANGED <<pos_map, pc, saved, upload, request>>
          /\ phase' = [phase EXCEPT ![r] = "command"]
          /\ thread' = [thread EXCEPT ![r] = "done"]
      BY <2>4 DEF TakeBlock
    <3>3. upload.slot = saved.numRead /\ upload.slot \in Slot
      BY <3>1 DEF ClientInv, TypeOK, Uploads
    <3>4. Fits(saved.pos_map)'
      <4> SUFFICES ASSUME NEW s \in Server, NEW b \in Block
                   PROVE  FitsOn(s, saved.pos_map, b)'
        BY DEF Fits
      <4>1. PICK map \in Positions : map = saved.pos_map
        BY DEF TypeOK
      <4>2. FitsOn(s, map, b)
        <5>1. FitsOn(s, saved.pos_map, b)
          BY <1>0 DEF CopyInv, Fits
        <5> QED
          BY <4>1, <5>1 DEF FitsOn, NodeOf, SlotOf
      <4>3. map[b].pathIdx # upload.slot
        BY <3>3, <4>1, SavedSlotFree
      <4>4. FitsOn(s, map, b)'
        BY <3>1, <3>3, <4>2, <4>3, StoreFits
      <4> QED
        BY <3>2, <4>1, <4>4 DEF FitsOn
    <3>5. /\ disk' = [disk EXCEPT ![r][0][upload.slot] = upload.word]
          /\ diskIv' = [diskIv EXCEPT ![r][0][upload.slot] = upload.iv]
          /\ disk \in [Server -> [Node -> [Slot -> SUBSET Token]]]
          /\ diskIv \in [Server -> [Node -> [Slot -> IV]]]
      BY <3>1 DEF StoreBlock, StoredIv, TypeOK
    <3>6. \A n \in Node, slot \in Slot : <<n, slot>> # <<0, upload.slot>> =>
              /\ disk'[0][n][slot] = disk'[1][n][slot]
              /\ diskIv'[0][n][slot] = diskIv'[1][n][slot]
      <4> SUFFICES ASSUME NEW n \in Node, NEW slot \in Slot, <<n, slot>> # <<0, upload.slot>>
                   PROVE  /\ disk'[0][n][slot] = disk'[1][n][slot]
                          /\ diskIv'[0][n][slot] = diskIv'[1][n][slot]
        OBVIOUS
      <4>1. disk[0][n][slot] = disk[1][n][slot] /\ diskIv[0][n][slot] = diskIv[1][n][slot]
        BY <1>0 DEF CopyInv
      <4>2. \A s \in Server : disk'[s][n][slot] = disk[s][n][slot]
                              /\ diskIv'[s][n][slot] = diskIv[s][n][slot]
        BY <3>3, <3>5, Leaves
      <4> QED
        BY <1>0, <4>1, <4>2
    <3>7. \A s \in Server : thread'[s] = "done" =>
              disk'[s][0][upload.slot] = upload.word /\ diskIv'[s][0][upload.slot] = upload.iv
      <4> SUFFICES ASSUME NEW s \in Server, thread'[s] = "done"
                   PROVE  /\ disk'[s][0][upload.slot] = upload.word
                          /\ diskIv'[s][0][upload.slot] = upload.iv
        OBVIOUS
      <4>1. CASE s = r
        BY <3>3, <3>5, <4>1, Leaves
      <4>2. CASE s # r
        <5>1. thread[s] = "done"
          BY <1>0, <3>2, <4>2
        <5>2. disk[s][0][upload.slot] = upload.word /\ diskIv[s][0][upload.slot] = upload.iv
          BY <1>0, <3>1, <5>1 DEF CopyInv
        <5> QED
          BY <3>3, <3>5, <4>2, <5>2, Leaves
      <4> QED
        BY <4>1, <4>2
    <3>8. \A s \in Server : /\ phase'[s] = "block" => thread'[s] = "payload"
                            /\ phase'[s] # "key"
      BY <1>0, <3>1, <3>2 DEF CopyInv
    <3>9. saved'.complete
      BY <1>0, <3>1, <3>2 DEF CopyInv
    <3> QED
      BY <3>1, <3>2, <3>4, <3>6, <3>7, <3>8, <3>9 DEF CopyInv
  <2>5. CASE MistakeCommand(r)
    BY <1>0, <2>5 DEF MistakeCommand, CopyInv
  <2>6. CASE MistakePath(r)
    <3>1. pc = "load"
      BY <2>6 DEF MistakePath, PhaseInv, Busy
    <3>2. \A s \in Server : Waits(s)'
      BY <1>0, <1>a, <2>6, <3>1 DEF MistakePath, Restarted, Waits
    <3> QED
      BY <1>0, <2>6, <3>1, <3>2, DiskUnchanged DEF MistakePath, Restarted
  <2>7. CASE MistakePayload(r)
    <3>1. pc = "load"
      BY <1>0, <2>7 DEF MistakePayload, PhaseInv, Busy, Announced
    <3> QED
      BY <1>0, <2>7, <3>1 DEF MistakePayload, CopyInv
  <2> QED
    BY <1>12, <2>1, <2>2, <2>3, <2>4, <2>5, <2>6, <2>7 DEF Exchange
<1>13. CASE UNCHANGED vars
  <2>1. \A s \in Server : Waits(s)'
    BY <1>a, <1>13 DEF vars, client, server, Waits
  <2>2. UNCHANGED <<pc, pos_map, upload, request, thread, answer, disk, diskIv, saved>>
    BY <1>13 DEF vars, client, server
  <2>3. pc # "aborted"
    BY <1>0 DEF CopyInv
  <2> QED
    BY <1>0, <2>1, <2>2, <2>3, DiskUnchanged
<1> QED
  BY <1>1, <1>2, <1>3, <1>4, <1>5, <1>6, <1>7, <1>8, <1>9, <1>10, <1>11, <1>12, <1>13,
     <1>14, <1>15
     DEF CrashNext, Next

-----------------------------------------------------------------------------
(***************************************************************************)
(* The invariant, and what follows from it.                                 *)
(***************************************************************************)

\* It holds of a new tree, whether the keys were sent or not.
LEMMA InitSessionInv == Init => SessionInv
<1> SUFFICES ASSUME Init PROVE SessionInv
  OBVIOUS
<1>1. TypeOK
  BY InitTypeOK
<1>2. PhaseInv
  BY DEF Init, PhaseInv, Threads, Busy
<1>3. ClientInv
  <2>1. saved.pos_map = pos_map /\ saved.numRead = numRead /\ pc = "menu"
    BY DEF Init
  <2>2. \A b \in Block : pos_map[b].pathIdx \div BUCKET_SIZE # 0
    BY InitFacts, Config
  <2> QED
    BY <2>1, <2>2 DEF ClientInv, RootFree
<1>4. CopyInv
  <2>1. saved.pos_map = pos_map /\ saved.complete /\ pc = "menu" /\ \A s \in Server : phase[s] = "command"
    BY DEF Init
  <2>2. Fits(pos_map) /\ disk[0] = disk[1] /\ diskIv[0] = diskIv[1]
    BY InitFacts
  <2>3. Fits(saved.pos_map)
    BY <2>1, <2>2 DEF Fits, FitsOn, NodeOf, SlotOf
  <2> QED
    BY <2>1, <2>2, <2>3 DEF CopyInv
<1> QED
  BY <1>1, <1>2, <1>3, <1>4 DEF SessionInv

\* Whatever crashes, the session stays in it.
THEOREM SessionInvariant == CrashSpec => []SessionInv
<1>1. SessionInv /\ [CrashNext]_vars => SessionInv'
  BY StepTypeOK, StepPhaseInv, StepClientInv, StepCopyInv DEF SessionInv
<1> QED
  BY <1>1, InitSessionInv, PTL DEF CrashSpec, CrashNext

\* Every variable has its type.
THEOREM SessionTypes == CrashSpec => []TypeOK
<1>1. SessionInv => TypeOK
  BY DEF SessionInv
<1> QED
  BY <1>1, SessionInvariant, PTL

\* The client that comes back from load() finds every server waiting for a
\* command, however often its predecessors died.
THEOREM LoadResynchronises == CrashSpec => []Resynchronised
<1>1. SessionInv => Resynchronised
  BY DEF SessionInv, PhaseInv, Resynchronised
<1> QED
  BY <1>1, SessionInvariant, PTL

\* The assertion of access() fails only after something was cut off.
THEOREM RetrievalCorrect == CrashSpec => []AnswersAddUp
<1>1. SessionInv => AnswersAddUp
  BY DEF SessionInv, CopyInv, AnswersAddUp, AssertHolds
<1> QED
  BY <1>1, SessionInvariant, PTL

\* The copies of the two servers agree between two uploads.
THEOREM CopiesStayEqual == CrashSpec => []CopiesAgree
<1>1. SessionInv => CopiesAgree
  <2> SUFFICES ASSUME SessionInv, pc # "upload", ~cut
               PROVE  disk[0] = disk[1] /\ diskIv[0] = diskIv[1]
    BY DEF CopiesAgree
  <2>1. /\ disk[0] \in [Node -> [Slot -> SUBSET Token]]
        /\ disk[1] \in [Node -> [Slot -> SUBSET Token]]
        /\ diskIv[0] \in [Node -> [Slot -> IV]] /\ diskIv[1] \in [Node -> [Slot -> IV]]
    BY DEF SessionInv, TypeOK, Server
  <2>2. \A n \in Node, slot \in Slot : /\ disk[0][n][slot] = disk[1][n][slot]
                                       /\ diskIv[0][n][slot] = diskIv[1][n][slot]
    BY DEF SessionInv, CopyInv
  <2>3. \A n \in Node : disk[0][n] = disk[1][n] /\ diskIv[0][n] = diskIv[1][n]
    <3> SUFFICES ASSUME NEW n \in Node
                 PROVE  disk[0][n] = disk[1][n] /\ diskIv[0][n] = diskIv[1][n]
      OBVIOUS
    <3>1. /\ disk[0][n] \in [Slot -> SUBSET Token] /\ disk[1][n] \in [Slot -> SUBSET Token]
          /\ diskIv[0][n] \in [Slot -> IV] /\ diskIv[1][n] \in [Slot -> IV]
      BY <2>1
    <3> QED
      BY <2>2, <3>1
  <2> QED
    BY <2>1, <2>3
<1> QED
  BY <1>1, SessionInvariant, PTL

\* Where the client in memory looks for a block, both servers have it, under
\* the IVs the client has for it.
THEOREM MemoryMatchesDisk == CrashSpec => []MemoryFits
<1>1. SessionInv => MemoryFits
  <2> SUFFICES ASSUME SessionInv, ~cut,
                      pc \in {"menu", "request", "save", "write", "evict"}
               PROVE  Fits(pos_map)
    BY DEF MemoryFits
  <2>1. CASE pc \in {"save", "write", "evict"}
    BY <2>1 DEF SessionInv, CopyInv
  <2>2. CASE pc \in {"menu", "request"}
    <3>1. pos_map = saved.pos_map /\ Fits(saved.pos_map)
      BY <2>2 DEF SessionInv, ClientInv, CopyInv
    <3> QED
      BY <3>1 DEF Fits, FitsOn, NodeOf, SlotOf
  <2> QED
    BY <2>1, <2>2
<1> QED
  BY <1>1, SessionInvariant, PTL

\* And where a client that comes back from the file would look for it: the file
\* is complete, and fits, unless it is being written or a client has died in
\* this or another exchange.
THEOREM FileMatchesDisk == CrashSpec => []FileFits
<1>1. SessionInv => FileFits
  BY DEF SessionInv, CopyInv, FileFits
<1> QED
  BY <1>1, SessionInvariant, PTL

\* A client whose keys were sent with the tree, or by load(), has them on both
\* servers when it evicts, unless something was cut off.
LEMMA StepKeyInv == SessionInv /\ KeyInv /\ [CrashNext]_vars => KeyInv'
<1> SUFFICES ASSUME SessionInv, KeyInv, [CrashNext]_vars, ~cut',
                    NEW s \in Server, (pc = "load" => thread[s] = "done")', pc' # "down"
             PROVE  key'[s]
  BY DEF KeyInv
<1>0. /\ ~cut
      /\ thread \in [Server -> {"off", "command", "payload", "done", "lost"}]
      /\ phase \in [Server -> {"command", "key", "request", "block"}]
      /\ key \in [Server -> BOOLEAN] /\ Server = {0, 1}
  <2>1. cut' = cut \/ cut' = TRUE
    BY DEF CrashNext, Next, Request, Recover, RecoverFails, Uploaded, OpenFile, Save, Load,
           LoadShort, LoadNext, LoadDone, Exchange, TakeCommand, TakeKey, TakeRequest, TakeBlock,
           MistakeCommand, MistakePath, MistakePayload, RestartAlone, Crash,
           CrashInExchange, CrashInWrite, RestartServing, vars
  <2> QED
    BY <2>1 DEF SessionInv, TypeOK, Server
<1>1. (pc = "load" => thread[s] = "done") /\ pc # "down" => key[s]
  BY <1>0 DEF KeyInv
<1>2. CASE \/ \E b \in Block : Request(b)
           \/ \E newLeaf \in Leaf : Recover(newLeaf)
           \/ RecoverFails \/ Uploaded \/ OpenFile \/ Save
  BY <1>1, <1>2 DEF Request, Recover, RecoverFails, Uploaded, OpenFile, Save, server
<1>9. CASE LoadShort
  BY <1>0, <1>9 DEF LoadShort, SessionInv, CopyInv
<1>3. CASE Load \/ LoadNext
  BY <1>0, <1>1, <1>3 DEF Load, LoadNext, Threads, server
<1>4. CASE LoadDone
  BY <1>1, <1>4 DEF LoadDone, KeysSent, Joined, server
<1>5. CASE Crash \/ CrashInExchange \/ CrashInWrite
  BY <1>5 DEF Crash, CrashInExchange, CrashInWrite, Gone
<1>6. ASSUME NEW r \in Server, Exchange(r) PROVE key'[s]
  <2>1. CASE TakeCommand(r)
    BY <1>0, <1>1, <2>1 DEF TakeCommand
  <2>2. CASE TakeKey(r)
    BY <1>0, <1>1, <2>2 DEF TakeKey
  <2>3. CASE TakeRequest(r)
    <3>1. pc = "request"
      BY <2>3 DEF TakeRequest, SessionInv, PhaseInv, Announced, Busy
    <3> QED
      BY <1>1, <2>3, <3>1 DEF TakeRequest
  <2>4. CASE TakeBlock(r)
    <3>1. pc = "upload"
      BY <1>0, <2>4 DEF TakeBlock, SessionInv, CopyInv
    <3> QED
      BY <1>1, <2>4, <3>1 DEF TakeBlock
  <2>5. CASE MistakeCommand(r)
    BY <1>0, <2>5 DEF MistakeCommand, SessionInv, CopyInv
  <2>6. CASE MistakePath(r)
    <3>1. pc = "load" /\ pc' = pc /\ thread' = [thread EXCEPT ![r] = "lost"]
      BY <2>6 DEF MistakePath, SessionInv, PhaseInv, Busy
    <3>2. s # r
      BY <1>0, <3>1
    <3> QED
      BY <1>0, <1>1, <2>6, <3>1, <3>2 DEF MistakePath, Restarted
  <2>7. CASE MistakePayload(r)
    <3>1. pc \in Busy /\ pc # "load"
      BY <1>0, <2>7 DEF MistakePayload, SessionInv, PhaseInv, CopyInv
    <3> QED
      BY <1>1, <2>7, <3>1 DEF MistakePayload, Busy, server
  <2> QED
    BY <1>6, <2>1, <2>2, <2>3, <2>4, <2>5, <2>6, <2>7 DEF Exchange
<1>7. CASE \E r \in Server : RestartAlone(r) \/ RestartServing(r)
  BY <1>0, <1>7 DEF RestartAlone, RestartServing, client
<1>8. CASE UNCHANGED vars
  BY <1>1, <1>8 DEF vars, client, server
<1> QED
  BY <1>2, <1>3, <1>4, <1>5, <1>6, <1>7, <1>8, <1>9 DEF CrashNext, Next

\* With every tree transmitted by its client, KeysKept holds throughout.
THEOREM KeysStay ==
    ASSUME Transmit \subseteq {TRUE}
    PROVE  CrashSpec => []KeysKept
<1>1. Init => KeyInv
  BY DEF Init, KeyInv
<1>2. KeyInv => KeysKept
  BY DEF KeyInv, KeysKept, KeysKnown
<1> QED
  BY <1>1, <1>2, StepKeyInv, SessionInvariant, PTL DEF CrashSpec, CrashNext

\* A step spoils a copy the file relies on only by taking a command for the
\* block of a dead client, and only in the slot of the last upload.
THEOREM DamageIsConfined == CrashSpec => DamageConfined
<1> DEFINE Spoils(s, b) ==
        FitsOn(s, saved.pos_map, b) /\ saved' = saved =>
            \/ FitsOn(s, saved.pos_map, b)'
            \/ /\ phase[s] = "block" /\ thread[s] = "command"
               /\ buffer[s] # NoUpload => saved.pos_map[b].pathIdx = buffer[s].slot
<1>1. ASSUME SessionInv, [CrashNext]_vars, NEW s \in Server, NEW b \in Block
      PROVE  Spoils(s, b)
  <2> SUFFICES ASSUME FitsOn(s, saved.pos_map, b), saved' = saved,
                      ~ FitsOn(s, saved.pos_map, b)'
               PROVE  /\ phase[s] = "block" /\ thread[s] = "command"
                      /\ buffer[s] # NoUpload => saved.pos_map[b].pathIdx = buffer[s].slot
    OBVIOUS
  <2>1. PICK map \in Positions : map = saved.pos_map
    BY <1>1 DEF SessionInv, TypeOK
  <2>2. FitsOn(s, map, b) /\ ~ FitsOn(s, map, b)'
    BY <2>1 DEF FitsOn, NodeOf, SlotOf
  <2>3. ~ UNCHANGED <<disk, diskIv>>
    BY <2>2 DEF FitsOn
  <2>4. PICK r \in Server : TakeBlock(r) \/ MistakeCommand(r)
    BY <1>1, <2>3 DEF CrashNext, Next, Request, Recover, RecoverFails, Uploaded, OpenFile, Save, Load,
           LoadShort, LoadNext, LoadDone, Exchange, TakeCommand, TakeKey, TakeRequest, Restarted, Gone,
           MistakePath, MistakePayload, RestartAlone, Crash, server,
           CrashInExchange, CrashInWrite, RestartServing, vars
  <2>5. TypeOK
    BY <1>1 DEF SessionInv
  <2>6. CASE TakeBlock(r)
    <3>1. pc = "upload" /\ StoreBlock(r, upload)
      BY <1>1, <2>6 DEF SessionInv, PhaseInv, TakeBlock, Payload, Busy, Announced
    <3>2. upload.slot = saved.numRead /\ upload.slot \in Slot
      BY <1>1, <3>1 DEF SessionInv, ClientInv, TypeOK, Uploads
    <3>3. map[b].pathIdx # upload.slot
      BY <1>1, <2>1, <3>2, SavedSlotFree DEF SessionInv
    <3> QED
      BY <2>2, <2>5, <3>1, <3>2, <3>3, StoreFits
  <2>7. CASE MistakeCommand(r)
    <3>1. thread[r] = "command" /\ phase[r] = "block"
      BY <2>3, <2>7 DEF MistakeCommand
    <3>2. PICK slot \in IF buffer[r] = NoUpload THEN Slot ELSE {buffer[r].slot} :
            StoreBlock(r, [slot |-> slot, word |-> buffer[r].word \cup Junk,
                           iv |-> buffer[r].iv])
      BY <2>7, <3>1 DEF MistakeCommand
    <3>3. slot \in Slot
      BY <2>5, <3>2 DEF TypeOK, Uploads
    <3>4. map[b].pathIdx = slot
      BY <2>2, <2>5, <3>2, <3>3, StoreFits
    <3>5. s = r
      <4>1. CASE s # r
        BY <2>2, <2>5, <3>2, <4>1 DEF FitsOn, StoreBlock, TypeOK
      <4> QED
        BY <4>1
    <3> QED
      BY <2>1, <3>1, <3>2, <3>4, <3>5
  <2> QED
    BY <2>4, <2>6, <2>7
<1>2. SessionInv /\ [CrashNext]_vars =>
        [\A s \in Server : \A b \in Block : Spoils(s, b)]_vars
  BY <1>1
<1> QED
  BY <1>2, SessionInvariant, PTL DEF CrashSpec, CrashNext, DamageConfined
=============================================================================
