------------------------- MODULE CommandLoopProofs -------------------------
(***************************************************************************)
(* The command loop, for every tree, any number of builds and evictions and *)
(* any number of failures: what a server waits for, that two servers never  *)
(* work on different evictions, that the client's file is not ahead of the  *)
(* disks, and what a client finds when nothing has gone wrong that the      *)
(* program does not survive.                                                *)
(***************************************************************************)
EXTENDS CommandLoop, DuetORAMProofs, FiniteSetTheorems

-----------------------------------------------------------------------------
(***************************************************************************)
(* The files of a server.                                                   *)
(***************************************************************************)

\* There are at least as many nodes as an eviction writes.
LEMMA Sizes ==
    /\ MaxDrawn \in Nat /\ MaxFailures \in Nat
    /\ NUM_NODES \in Nat /\ HEIGHT + 2 <= NUM_NODES
    /\ KeyPos \in Nat /\ LastFile \in Nat /\ LastFile <= KeyPos
    /\ File = 0 .. KeyPos - 1
<1> DEFINE S == {k \in Nat : k + 2 <= HEIGHT + 1 => pow2[k + 2] >= k + 4}
<1>1. 0 \in S
  <2>1. pow2[0] = 1 /\ pow2[0 + 1] = 2 * pow2[0] /\ pow2[1 + 1] = 2 * pow2[1]
    <3>1. 0 \in 0 .. HEIGHT /\ 1 \in 0 .. HEIGHT
      BY Config
    <3> QED
      BY <3>1, Powers
  <2> QED
    BY <2>1
<1>2. ASSUME NEW k \in Nat, k \in S PROVE k + 1 \in S
  <2> SUFFICES ASSUME (k + 1) + 2 <= HEIGHT + 1 PROVE pow2[(k + 1) + 2] >= (k + 1) + 4
    OBVIOUS
  <2>1. k + 2 \in 0 .. HEIGHT /\ k + 2 \in 0 .. HEIGHT + 1 /\ (k + 2) + 1 = (k + 1) + 2
    BY Config
  <2>2. pow2[(k + 2) + 1] = 2 * pow2[k + 2] /\ pow2[k + 2] \in Nat
    BY <2>1, Powers
  <2>3. pow2[k + 2] >= k + 4
    BY <1>2, <2>1, Config
  <2> QED
    BY <2>1, <2>2, <2>3
<1>3. Nat \subseteq S
  <2> HIDE DEF S
  <2> QED
    BY <1>1, <1>2, SetInduction
<1>4. pow2[HEIGHT + 1] \in Nat /\ pow2[HEIGHT + 1] >= HEIGHT + 3
  <2>1. HEIGHT - 1 \in S /\ (HEIGHT - 1) + 2 = HEIGHT + 1 /\ HEIGHT + 1 \in 0 .. HEIGHT + 1
    BY <1>3, Config
  <2> QED
    BY <2>1, Config, Powers
<1> QED
  BY <1>4, Config, LoopAssumption DEF NUM_NODES, KeyPos, LastFile, File

\* The buckets an eviction writes are nodes.
LEMMA TargetsAreNodes ==
    ASSUME NEW leaf \in Leaf
    PROVE  TargetNodes(leaf) \in [0 .. HEIGHT + 1 -> Node]
<1> SUFFICES ASSUME NEW i \in 0 .. HEIGHT + 1 PROVE TargetNodes(leaf)[i] \in Node
  BY DEF TargetNodes
<1>1. CASE i < HEIGHT
  <2>1. i + 1 \in 1 .. HEIGHT /\ i # HEIGHT /\ i # HEIGHT + 1
    BY <1>1, Config
  <2>2. TargetNodes(leaf)[i] = getSibling(FullPath[leaf][i + 1])
    BY <1>1, <2>1 DEF TargetNodes
  <2>3. getSibling(FullPath[leaf][i + 1]) \in Node
    BY <2>1, SiblingFacts
  <2> QED
    BY <2>2, <2>3
<1>2. CASE i = HEIGHT
  BY <1>2, Leaves, Config DEF TargetNodes
<1>3. CASE i = HEIGHT + 1
  <2>1. ~(i < HEIGHT) /\ i # HEIGHT
    BY <1>3, Config
  <2> QED
    BY <1>3, <2>1, Leaves DEF TargetNodes
<1> QED
  BY <1>1, <1>2, <1>3, Config

\* An eviction writes the files of its targets, all of them and no other.
LEMMA WriteOrderFacts ==
    ASSUME NEW leaf \in Leaf
    PROVE  /\ \A i \in 0 .. LastFile - 1 : WriteOrder(leaf)[i] \in File
           /\ Targets(leaf) = {WriteOrder(leaf)[i] : i \in 0 .. LastFile - 1}
<1> DEFINE T == TargetNodes(leaf)
           W == WriteOrder(leaf)
<1>1. T \in [0 .. HEIGHT + 1 -> Node]
  BY TargetsAreNodes
<1>2. \A i \in 0 .. LastFile - 1 :
          /\ i \div 2 \in 0 .. HEIGHT + 1 /\ i = 2 * (i \div 2) + (i % 2) /\ i % 2 \in {0, 1}
          /\ W[i] = 2 * T[i \div 2] + (i % 2)
  <2> SUFFICES ASSUME NEW i \in 0 .. LastFile - 1
               PROVE  /\ i \div 2 \in 0 .. HEIGHT + 1 /\ i = 2 * (i \div 2) + (i % 2)
                      /\ i % 2 \in {0, 1} /\ W[i] = 2 * T[i \div 2] + (i % 2)
    OBVIOUS
  <2>1. i \div 2 \in 0 .. HEIGHT + 1 /\ i = 2 * (i \div 2) + (i % 2) /\ i % 2 \in {0, 1}
    <3>1. i \in Nat /\ i < 2 * (HEIGHT + 2) /\ HEIGHT \in Nat
      BY Config DEF LastFile
    <3>2. i \div 2 \in Nat /\ i % 2 \in 0 .. 1 /\ i = 2 * (i \div 2) + (i % 2)
      BY <3>1, DivMod
    <3> QED
      BY <3>1, <3>2
  <2>2. T[i \div 2] \in Nat
    BY <1>1, <2>1, Sizes DEF Node
  <2>3. W[i] = IF i % 2 = 0 THEN Bucket(T[i \div 2]) ELSE Ivs(T[i \div 2])
    BY DEF WriteOrder, LastFile
  <2> QED
    BY <2>1, <2>2, <2>3 DEF Bucket, Ivs
<1>3. \A n \in Node, p \in {0, 1} : 2 * n + p \in File /\ (2 * n + p) \div 2 = n
  <2> SUFFICES ASSUME NEW n \in Node, NEW p \in {0, 1}
               PROVE  2 * n + p \in File /\ (2 * n + p) \div 2 = n
    OBVIOUS
  <2>1. n \in Nat /\ n <= NUM_NODES - 1 /\ p \in 0 .. 2 - 1 /\ 2 \in Nat \ {0}
    BY Sizes DEF Node
  <2>2. (2 * n + p) \div 2 = n
    BY <2>1, DivModUnique
  <2> QED
    BY <2>1, <2>2, Sizes DEF File
<1>4. \A i \in 0 .. LastFile - 1 : W[i] \in File /\ W[i] \div 2 = T[i \div 2]
  BY <1>1, <1>2, <1>3
<1>5. ASSUME NEW f \in Targets(leaf)
      PROVE  f \in {W[i] : i \in 0 .. LastFile - 1}
  <2>1. f \in File /\ f \div 2 \in {T[i] : i \in 0 .. HEIGHT + 1}
    BY DEF Targets
  <2>2. PICK i \in 0 .. HEIGHT + 1 : f \div 2 = T[i]
    BY <2>1
  <2> DEFINE j == 2 * i + (f % 2)
  <2>3. f \in Nat /\ f % 2 \in {0, 1} /\ f = 2 * (f \div 2) + (f % 2)
    <3>1. f \in Nat
      BY <2>1, Sizes DEF File
    <3>2. f % 2 \in 0 .. 1 /\ f = 2 * (f \div 2) + (f % 2)
      BY <3>1, DivMod
    <3> QED
      BY <3>1, <3>2
  <2>4. j \in 0 .. LastFile - 1 /\ j \div 2 = i /\ j % 2 = f % 2
    <3>1. i \in Nat /\ i <= HEIGHT + 1 /\ f % 2 \in 0 .. 2 - 1 /\ 2 \in Nat \ {0} /\ HEIGHT \in Nat
      BY <2>3, Config
    <3>2. j \div 2 = i /\ j % 2 = f % 2
      <4>1. \A r \in 0 .. 2 - 1 : (2 * i + r) \div 2 = i /\ (2 * i + r) % 2 = r
        BY <3>1, DivModUnique
      <4> QED
        BY <3>1, <4>1
    <3> QED
      BY <3>1, <3>2 DEF LastFile
  <2>5. W[j] = f
    BY <1>2, <2>2, <2>3, <2>4
  <2> QED
    BY <2>4, <2>5
<1>6. ASSUME NEW i \in 0 .. LastFile - 1 PROVE W[i] \in Targets(leaf)
  BY <1>2, <1>4 DEF Targets
<1> QED
  BY <1>4, <1>5, <1>6

\* The eviction of a client's memory is one of a leaf.
LEMMA JobLeafFacts ==
    /\ \A n \in 0 .. N_leaf - 1 : getEvictLeafID(n) \in Leaf /\ NextEvict(n) \in 0 .. N_leaf - 1
    /\ 0 \in 0 .. N_leaf - 1
<1>1. N_leaf \in Nat \ {0}
  BY Leaves
<1>2. ASSUME NEW n \in 0 .. N_leaf - 1
      PROVE  getEvictLeafID(n) \in Leaf /\ NextEvict(n) \in 0 .. N_leaf - 1
  <2>1. n \in Nat /\ n + 1 \in Nat
    BY <1>1
  <2>2. (n + 1) % N_leaf \in 0 .. N_leaf - 1
    BY <1>1, <2>1, DivMod
  <2> QED
    BY <2>1, <2>2, EvictedPath DEF NextEvict
<1> QED
  BY <1>1, <1>2

-----------------------------------------------------------------------------
(***************************************************************************)
(* What the steps do.                                                       *)
(***************************************************************************)

\* The places of the client, and the kind of its requests.
LEMMA KindFacts ==
    /\ DOMAIN Kind = {"transfer", "load", "request", "init", "evict"}
    /\ Kind["transfer"] = "tree" /\ Kind["load"] = "key" /\ Kind["request"] = "request"
    /\ Kind["init"] = "init" /\ Kind["evict"] = "evict"
    /\ {Kind[c] : c \in DOMAIN Kind} = {"tree", "key", "request", "init", "evict"}
    /\ PC = {"transfer", "load", "request", "init", "evict", "down", "create", "menu",
             "save", "aborted", "undefined"}
<1>1. DOMAIN Kind = {"transfer", "load", "request", "init", "evict"}
  BY DEF Kind
<1>2. /\ Kind["transfer"] = "tree" /\ Kind["load"] = "key" /\ Kind["request"] = "request"
      /\ Kind["init"] = "init" /\ Kind["evict"] = "evict"
  BY DEF Kind
<1> QED
  BY <1>1, <1>2 DEF PC

\* The message m a server hears, from the client or from a dead one.
Heard(s, m, live) ==
    \/ live /\ thread[s] \in {"command", "payload"} /\ m = Message(s) /\ pc \in DOMAIN Kind
    \/ ~live /\ stray[s] # NoMsg /\ m = stray[s]

\* What a server handles is a message.
LEMMA HandleMeans ==
    ASSUME TypeOK, ClientInv, NEW s \in Server, Handle(s)
    PROVE  \E m \in Msg, live \in BOOLEAN : Heard(s, m, live) /\ Receive(s, m, live)
<1>1. CASE thread[s] \in {"command", "payload"} /\ Receive(s, Message(s), TRUE)
  <2>1. pc \in DOMAIN Kind
    BY <1>1 DEF ClientInv, NoServer
  <2>2. Message(s) \in Msg
    BY <1>1, <2>1 DEF TypeOK, Message, Msg
  <2> QED
    BY <1>1, <2>1, <2>2 DEF Heard
<1>2. CASE stray[s] # NoMsg /\ Receive(s, stray[s], FALSE)
  <2>1. stray[s] \in Msg
    BY <1>2 DEF TypeOK
  <2> QED
    BY <1>2, <2>1 DEF Heard
<1> QED
  BY <1>1, <1>2 DEF Handle

\* The other server.
LEMMA OtherFacts ==
    /\ \A s \in Server : Other(s) \in Server /\ Other(s) # s /\ Other(Other(s)) = s
    /\ \A s, r \in Server : r = s \/ r = Other(s)
    /\ 0 \in Server /\ 1 \in Server /\ Other(0) = 1 /\ Other(1) = 0
BY DEF Server, Other

\* The memories a client can have.
LEMMA DataFacts ==
    /\ NoData \in Data /\ NoMsg \notin Msg
    /\ \A v \in Version : [tree |-> AllFiles(v), key |-> v, numEvict |-> 0] \in Data
    /\ \A m \in Data : m.tree \in [File -> Version] /\ m.key \in Version /\ m.numEvict \in 0 .. N_leaf - 1
    /\ NoJob \in [id : Version, mem : Data]
    /\ 0 \in Version /\ Version \subseteq Nat
<1>1. 0 \in Version /\ Version \subseteq Nat
  BY Sizes DEF Version
<1>2. \A v \in Version : [tree |-> AllFiles(v), key |-> v, numEvict |-> 0] \in Data
  BY JobLeafFacts DEF AllFiles, Data
<1>3. NoData \in Data
  BY <1>1, <1>2 DEF NoData
<1>4. NoMsg \notin Msg
  BY KindFacts DEF NoMsg, Msg
<1>5. \A m \in Data : m.tree \in [File -> Version] /\ m.key \in Version /\ m.numEvict \in 0 .. N_leaf - 1
  BY DEF Data
<1> QED
  BY <1>1, <1>2, <1>3, <1>4, <1>5 DEF NoJob

\* The answer of a server to the message it has heard.
LEMMA AnswerType ==
    ASSUME TypeOK, NEW s \in Server, NEW live \in BOOLEAN, NEW understood \in BOOLEAN,
           Answer(s, live, understood)
    PROVE  /\ thread' \in [Server -> {"off", "command", "payload", "wait", "done",
                                      "garbled", "lost"}]
           /\ sent' \in 0 .. KeyPos /\ stray' \in [Server -> Msg \cup {NoMsg}]
<1>1. KeyPos \in Nat
  BY Sizes
<1>2. CASE live
  BY <1>1, <1>2 DEF TypeOK, Answer, NextRequest
<1>3. CASE ~live
  BY <1>3 DEF TypeOK, Answer
<1> QED
  BY <1>2, <1>3

-----------------------------------------------------------------------------
(***************************************************************************)
(* Types.                                                                   *)
(***************************************************************************)

\* The first state has its types.
LEMMA InitTypeOK == Init => TypeOK
  BY DataFacts, KindFacts, Sizes DEF Init, TypeOK, AllFiles, Phases

\* The steps of the client keep the types.
LEMMA ClientTypeOK ==
    ASSUME TypeOK, ClientInv,
           Create \/ Load \/ Request \/ Leave \/ Crash \/ Client
    PROVE  TypeOK'
<1> USE KindFacts, DataFacts DEF TypeOK, loop, memory, faults
<1>1. CASE Create
  <2>1. drawn' \in Version
    BY <1>1, Sizes DEF Create, Version
  <2>2. mem' \in Data /\ pc' \in PC
    BY <1>1, <2>1 DEF Create
  <2> QED
    BY <1>1, <2>1, <2>2 DEF Create
<1>2. CASE Load
  <2>1. 0 \in 0 .. KeyPos
    BY Sizes
  <2> QED
    BY <1>2, <2>1 DEF Load, FirstServer
<1>3. CASE Request
  BY <1>3 DEF Request, BothServers
<1>4. CASE Leave
  BY <1>4 DEF Leave
<1>5. CASE Crash
  <2>1. 0 \in 0 .. KeyPos
    BY Sizes
  <2>2. PICK late \in SUBSET {s \in Server : thread[s] \in {"command", "payload"}
                                            /\ stray[s] = NoMsg} :
          /\ failures' = failures + 1 + Cardinality(late)
          /\ stray' = [s \in Server |-> IF s \in late THEN Message(s) ELSE stray[s]]
          /\ fatal' = fatal \cup (IF Fatal THEN {"client"} ELSE {})
                             \cup (IF late = {} THEN {}
                              ELSE IF pc = "evict" THEN {"eviction"} ELSE {"request"})
          /\ misled' = misled \cup late
    BY <1>5 DEF Crash
  <2>3. failures' \in Nat
    <3>1. Server = 0 .. 1 /\ late \subseteq Server
      BY <2>2 DEF Server
    <3>2. Cardinality(late) \in Nat
      <4>1. IsFiniteSet(0 .. 1)
        <5>1. 0 \in Int /\ 1 \in Int
          OBVIOUS
        <5> QED
          BY <5>1, FS_Interval
      <4>2. IsFiniteSet(late)
        BY <3>1, <4>1, FS_Subset
      <4> QED
        BY <4>2, FS_CardinalityType
    <3> QED
      BY <2>2, <3>2
  <2>4. stray' \in [Server -> Msg \cup {NoMsg}]
    <3>1. ASSUME NEW s \in late PROVE Message(s) \in Msg
      <4>1. thread[s] \in {"command", "payload"} /\ s \in Server
        BY <2>2
      <4>2. pc \in DOMAIN Kind
        BY <4>1 DEF ClientInv, NoServer
      <4> QED
        BY <4>1, <4>2 DEF Message, Msg
    <3> QED
      BY <2>2, <3>1
  <2>5. fatal' \subseteq {"client", "request", "eviction", "server"} /\ misled' \subseteq Server
    BY <2>2
  <2>6. saved' \in Data
    BY <1>5 DEF Crash
  <2> QED
    BY <1>5, <2>1, <2>3, <2>4, <2>5, <2>6 DEF Crash, NoServer
<1>6. CASE Client
  <2>1. 0 \in 0 .. KeyPos
    BY Sizes
  <2>2. CASE Created
    BY <2>1, <2>2 DEF Created, FirstServer
  <2>3. CASE NextServer
    BY <2>1, <2>3 DEF NextServer, Server
  <2>4. CASE Ready
    BY <2>1, <2>4 DEF Ready, NoServer
  <2>5. CASE RequestDone
    <3>1. drawn' \in Version
      BY <2>5, Sizes DEF RequestDone, Version, ClientInv
    <3> QED
      BY <2>5, <3>1 DEF RequestDone, FirstServer
  <2>6. CASE RequestFails
    BY <2>6 DEF RequestFails, NoServer
  <2>7. CASE InitDone
    BY <2>7 DEF InitDone, BothServers
  <2>8. CASE EvictDone
    <3>1. mem.numEvict \in 0 .. N_leaf - 1 /\ mem.key \in Version /\ mem.tree \in [File -> Version]
      OBVIOUS
    <3> DEFINE targets == Targets(getEvictLeafID(mem.numEvict))
               tree == [f \in File |-> IF f \in targets THEN drawn ELSE mem.tree[f]]
    <3>2. mem' = [tree |-> tree, key |-> mem.key, numEvict |-> NextEvict(mem.numEvict)]
      BY <2>8 DEF EvictDone, Data
    <3>3. tree \in [File -> Version]
      BY <3>1
    <3>4. NextEvict(mem.numEvict) \in 0 .. N_leaf - 1
      BY <3>1, JobLeafFacts
    <3>5. mem' \in Data
      <4> HIDE DEF tree
      <4> QED
        BY <3>1, <3>2, <3>3, <3>4 DEF Data
    <3> QED
      BY <2>8, <3>5 DEF EvictDone, NoServer
  <2>9. CASE Save
    BY <2>9 DEF Save
  <2> QED
    BY <1>6, <2>2, <2>3, <2>4, <2>5, <2>6, <2>7, <2>8, <2>9 DEF Client
<1> QED
  BY <1>1, <1>2, <1>3, <1>4, <1>5, <1>6

\* What a server does with a message keeps the types.
LEMMA ReceiveTypeOK ==
    ASSUME TypeOK, ClientInv, NEW s \in Server, NEW m \in Msg, NEW live \in BOOLEAN,
           Heard(s, m, live), Receive(s, m, live)
    PROVE  TypeOK'
<1> USE KindFacts, DataFacts DEF loop, memory, faults, local
<1>0. /\ m.kind \in {"tree", "key", "request", "init", "evict"}
      /\ m.part \in {"command", "payload"} /\ m.id \in Version /\ m.mem \in Data
      /\ m.mem.key \in Version
  BY DEF Msg
<1>1. CASE TakeCommand(s, m, live)
  <2>1. /\ thread' \in [Server -> {"off", "command", "payload", "wait", "done",
                                   "garbled", "lost"}]
        /\ sent' \in 0 .. KeyPos /\ stray' \in [Server -> Msg \cup {NoMsg}]
    BY <1>1, AnswerType DEF TakeCommand
  <2>2. phase' \in [Server -> Phases]
    BY <1>0, <1>1 DEF TakeCommand, TypeOK, Phases
  <2> QED
    BY <1>1, <2>1, <2>2 DEF TakeCommand, TypeOK
<1>2. CASE TakeFile(s, m, live)
  <2> DEFINE right == Understood(s, m) /\ m.pos = cursor[s]
  <2>0. right \in BOOLEAN /\ Answer(s, live, right)
    BY <1>2 DEF TakeFile, Understood
  <2>1. /\ thread' \in [Server -> {"off", "command", "payload", "wait", "done",
                                   "garbled", "lost"}]
        /\ sent' \in 0 .. KeyPos /\ stray' \in [Server -> Msg \cup {NoMsg}]
    <3> HIDE DEF right
    <3> QED
      BY <2>0, AnswerType
  <2>2. cursor' \in [Server -> 0 .. KeyPos]
    BY <1>2, Sizes DEF TakeFile, TypeOK
  <2>3. disk' \in [Server -> [File -> Version]]
    <3>1. disk' = [disk EXCEPT ![s][cursor[s]] = IF right THEN m.mem.key ELSE 0]
      BY <1>2 DEF TakeFile
    <3>2. (IF right THEN m.mem.key ELSE 0) \in Version
      BY <1>0
    <3> HIDE DEF right
    <3> QED
      BY <3>1, <3>2 DEF TypeOK
  <2> QED
    BY <1>2, <2>1, <2>2, <2>3 DEF TakeFile, TypeOK
<1>3. CASE TakeKey(s, m, live)
  <2> DEFINE right == Understood(s, m) /\ (phase[s] = "tree" => m.pos = KeyPos)
  <2>0. right \in BOOLEAN /\ Answer(s, live, right)
    BY <1>3 DEF TakeKey, Understood
  <2>1. /\ thread' \in [Server -> {"off", "command", "payload", "wait", "done",
                                   "garbled", "lost"}]
        /\ sent' \in 0 .. KeyPos /\ stray' \in [Server -> Msg \cup {NoMsg}]
    <3> HIDE DEF right
    <3> QED
      BY <2>0, AnswerType
  <2>2. cursor' \in [Server -> 0 .. KeyPos] /\ phase' \in [Server -> Phases]
    BY <1>3, Sizes DEF TakeKey, TypeOK, Phases
  <2>3. key' \in [Server -> Version]
    <3>1. key' = [key EXCEPT ![s] = IF right THEN m.mem.key ELSE 0]
      BY <1>3 DEF TakeKey
    <3>2. (IF right THEN m.mem.key ELSE 0) \in Version
      BY <1>0
    <3> HIDE DEF right
    <3> QED
      BY <3>1, <3>2 DEF TypeOK
  <2> QED
    BY <1>3, <2>1, <2>2, <2>3 DEF TakeKey, TypeOK
<1>4. CASE TakePermutation(s, m, live)
  <2>0. Understood(s, m) \in BOOLEAN /\ Answer(s, live, Understood(s, m))
    BY <1>4 DEF TakePermutation, Understood
  <2>1. /\ thread' \in [Server -> {"off", "command", "payload", "wait", "done",
                                   "garbled", "lost"}]
        /\ sent' \in 0 .. KeyPos /\ stray' \in [Server -> Msg \cup {NoMsg}]
    BY <2>0, AnswerType
  <2>2. phase' \in [Server -> Phases] /\ perm' \in [Server -> Version]
    BY <1>0, <1>4 DEF TakePermutation, TypeOK, Phases
  <2> QED
    BY <1>4, <2>1, <2>2 DEF TakePermutation, TypeOK
<1>5. CASE TakeRequest(s, m, live)
  <2>1. /\ thread' \in [Server -> {"off", "command", "payload", "wait", "done",
                                   "garbled", "lost"}]
        /\ sent' \in 0 .. KeyPos /\ stray' \in [Server -> Msg \cup {NoMsg}]
    BY <1>5, AnswerType DEF TakeRequest, Understood
  <2>2. phase' \in [Server -> Phases]
    BY <1>5 DEF TakeRequest, TypeOK, Phases
  <2> QED
    BY <1>5, <2>1, <2>2 DEF TakeRequest, TypeOK
<1>6. CASE TakeEviction(s, m, live)
  <2>1. job' \in [Server -> [id : Version, mem : Data]]
    BY <1>0, <1>6 DEF TakeEviction, TypeOK
  <2>2. phase' \in [Server -> Phases]
    BY <1>6 DEF TakeEviction, TypeOK, Phases
  <2>3. /\ thread' \in [Server -> {"off", "command", "payload", "wait", "done",
                                   "garbled", "lost"}]
        /\ stray' \in [Server -> Msg \cup {NoMsg}]
    BY <1>6 DEF TakeEviction, TypeOK
  <2> QED
    BY <1>6, <2>1, <2>2, <2>3 DEF TakeEviction, TypeOK
<1>7. CASE TakeUnusable(s, m, live)
  <2>1. PICK lost \in BOOLEAN : Restarted(s, lost)
    BY <1>7 DEF TakeUnusable
  <2> QED
    BY <1>7, <2>1, Sizes DEF TakeUnusable, Restarted, TypeOK, Phases
<1> QED
  BY <1>1, <1>2, <1>3, <1>4, <1>5, <1>6, <1>7 DEF Receive

\* A server that handles a message keeps the types.
LEMMA HandleTypeOK ==
    ASSUME TypeOK, ClientInv, NEW s \in Server, Handle(s)
    PROVE  TypeOK'
  BY HandleMeans, ReceiveTypeOK

\* A restart changes the disk of its server only, and only to tear the file
\* that is being written.
LEMMA RestartDisk ==
    ASSUME TypeOK, NEW s \in Server, Restart(s)
    PROVE  /\ disk' \in [Server -> [File -> Version]]
           /\ \A r \in Server, f \in File : disk'[r][f] \in {0, disk[r][f]}
           /\ phase[s] \notin {"tree", "write"} => disk' = disk
           /\ \A r \in Server : r # s => disk'[r] = disk[r]
<1> DEFINE Open == IF phase[s] = "tree" /\ cursor[s] < KeyPos THEN {cursor[s]}
                   ELSE IF phase[s] = "write" /\ cursor[s] < LastFile
                   THEN {WriteOrder(JobLeaf(job[s]))[cursor[s]]} ELSE {}
<1>1. \E torn \in SUBSET Open :
          disk' = [disk EXCEPT ![s] = [f \in File |-> IF f \in torn THEN 0 ELSE @[f]]]
  BY DEF Restart
<1>2. phase[s] \notin {"tree", "write"} => Open = {}
  OBVIOUS
<1> HIDE DEF Open
<1>3. PICK torn \in SUBSET Open :
          disk' = [disk EXCEPT ![s] = [f \in File |-> IF f \in torn THEN 0 ELSE disk[s][f]]]
  BY <1>1
<1>4. 0 \in Version /\ disk \in [Server -> [File -> Version]]
  BY DataFacts DEF TypeOK
<1>5. /\ disk' \in [Server -> [File -> Version]]
      /\ \A r \in Server, f \in File : disk'[r][f] \in {0, disk[r][f]}
      /\ \A r \in Server : r # s => disk'[r] = disk[r]
  BY <1>3, <1>4
<1>6. ASSUME phase[s] \notin {"tree", "write"} PROVE disk' = disk
  BY <1>2, <1>3, <1>4, <1>6
<1> QED
  BY <1>5, <1>6

\* The steps of an eviction and restarts keep the types.
LEMMA ServerTypeOK ==
    ASSUME TypeOK,
           Meet \/ \E s \in Server : Evicting(s) \/ Restart(s)
    PROVE  TypeOK'
<1> USE KindFacts, DataFacts DEF loop, memory, faults, local
<1>1. CASE Meet
  <2>1. Computed \in Version
    BY OtherFacts DEF Computed, TypeOK
  <2> QED
    BY <1>1, <2>1 DEF Meet, TypeOK, Phases
<1>2. ASSUME NEW s \in Server, Exchange(s) PROVE TypeOK'
  BY <1>2, OtherFacts DEF Exchange, TypeOK
<1>3. ASSUME NEW s \in Server, BeginWrite(s) PROVE TypeOK'
  BY <1>3, Sizes DEF BeginWrite, TypeOK, Phases
<1>4. ASSUME NEW s \in Server, WriteFile(s) PROVE TypeOK'
  <2>1. cursor[s] \in 0 .. LastFile - 1 /\ cursor[s] + 1 \in 0 .. KeyPos
    BY <1>4, Sizes DEF WriteFile, TypeOK
  <2>2. cursor' \in [Server -> 0 .. KeyPos]
    BY <1>4, <2>1 DEF WriteFile, TypeOK
  <2> DEFINE f == WriteOrder(JobLeaf(job[s]))[cursor[s]]
  <2>3. disk' = [disk EXCEPT ![s][f] = work[s]] /\ work[s] \in Version
    BY <1>4 DEF WriteFile, TypeOK
  <2>4. disk' \in [Server -> [File -> Version]]
    <3> HIDE DEF f
    <3> QED
      BY <2>3 DEF TypeOK
  <2> QED
    BY <1>4, <2>2, <2>4 DEF WriteFile, TypeOK
<1>5. ASSUME NEW s \in Server, Ack(s) PROVE TypeOK'
  BY <1>5, Sizes DEF Ack, TypeOK, Phases
<1>6. ASSUME NEW s \in Server, Restart(s) PROVE TypeOK'
  <2>1. PICK lost \in BOOLEAN : Restarted(s, lost)
    BY <1>6 DEF Restart
  <2>2. disk' \in [Server -> [File -> Version]]
    BY <1>6, RestartDisk
  <2>3. acked' \in [Server -> BOOLEAN]
    <3>1. PICK told \in BOOLEAN :
            acked' = [acked EXCEPT ![s] = FALSE,
                                   ![Other(s)] = @ /\ (phase[Other(s)] = "exchange" => told)]
      BY <1>6 DEF Restart
    <3> QED
      BY <3>1, OtherFacts DEF TypeOK
  <2>4. /\ phase' \in [Server -> Phases] /\ cursor' \in [Server -> 0 .. KeyPos]
        /\ key' \in [Server -> Version] /\ perm' \in [Server -> Version]
        /\ job' \in [Server -> [id : Version, mem : Data]] /\ work' \in [Server -> Version]
        /\ got' \in [Server -> BOOLEAN]
        /\ stray' \in [Server -> Msg \cup {NoMsg}]
        /\ thread' \in [Server -> {"off", "command", "payload", "wait", "done",
                                   "garbled", "lost"}]
    BY <2>1, Sizes DEF Restarted, TypeOK, Phases
  <2>5. /\ failures' \in Nat /\ fatal' \subseteq {"client", "request", "eviction", "server"}
        /\ misled' \subseteq Server
    BY <1>6 DEF Restart, TypeOK
  <2> QED
    BY <1>6, <2>2, <2>3, <2>4, <2>5 DEF Restart, TypeOK
<1> QED
  BY <1>1, <1>2, <1>3, <1>4, <1>5, <1>6 DEF Evicting

\* Every step keeps the types.
LEMMA NextTypeOK ==
    ASSUME TypeOK, ClientInv, [Next]_vars
    PROVE  TypeOK'
<1>1. ASSUME NEW s \in Server, Handle(s) PROVE TypeOK'
  BY <1>1, HandleTypeOK
<1>2. CASE UNCHANGED vars
  BY <1>2 DEF TypeOK, vars, local, loop, memory, faults
<1> QED
  BY <1>1, <1>2, ClientTypeOK, ServerTypeOK DEF Next, User

-----------------------------------------------------------------------------
(***************************************************************************)
(* The client and the servers.                                              *)
(***************************************************************************)

\* What a message changes: the server that takes it, the client's thread for
\* that server or the request of the dead client.  An eviction that begins is the
\* client's or that of the dead client.
LEMMA HandleFacts ==
    ASSUME TypeOK, ClientInv, NEW s \in Server, Handle(s)
    PROVE  /\ UNCHANGED <<pc, mem, drawn, saved, failures, fatal, misled>>
           /\ ~Busy(s) /\ thread[s] # "wait"
           /\ phase'[s] \in {"tree", "key", "init", "request", "evict", "command", "share"}
           /\ phase'[s] = "share" =>
                 /\ phase[s] = "evict"
                 /\ \/ /\ pc = "evict" /\ thread[s] = "payload" /\ thread'[s] = "wait"
                       /\ job'[s] = [id |-> drawn, mem |-> mem]
                    \/ stray[s] # NoMsg /\ stray[s].kind = "evict" /\ thread'[s] = thread[s]
           /\ \A r \in Server \ {s} :
                 /\ phase'[r] = phase[r] /\ cursor'[r] = cursor[r] /\ disk'[r] = disk[r]
                 /\ key'[r] = key[r] /\ perm'[r] = perm[r] /\ job'[r] = job[r]
                 /\ work'[r] = work[r] /\ stray'[r] = stray[r] /\ thread'[r] = thread[r]
           /\ stray'[s] \in {stray[s], NoMsg}
           /\ \/ thread'[s] = thread[s]
              \/ /\ thread[s] \in {"command", "payload"}
                 /\ thread'[s] \in {"payload", "done", "garbled", "wait", "lost"}
                 /\ thread'[s] = "wait" => phase'[s] = "share"
<1> USE DEF faults, memory, local, Busy
<1>0. /\ thread \in [Server -> {"off", "command", "payload", "wait", "done", "garbled", "lost"}]
      /\ phase \in [Server -> Phases] /\ cursor \in [Server -> 0 .. KeyPos]
      /\ disk \in [Server -> [File -> Version]]
      /\ key \in [Server -> Version] /\ perm \in [Server -> Version]
      /\ job \in [Server -> [id : Version, mem : Data]] /\ work \in [Server -> Version]
      /\ stray \in [Server -> Msg \cup {NoMsg}]
  BY DEF TypeOK
<1>R. PICK m \in Msg, live \in BOOLEAN : Heard(s, m, live) /\ Receive(s, m, live)
  BY HandleMeans
<1>1. m.kind \in {"tree", "key", "request", "init", "evict"}
  BY KindFacts DEF Msg
<1>2. /\ live => /\ thread[s] \in {"command", "payload"} /\ m = Message(s)
                 /\ pc \in DOMAIN Kind
                 /\ m.kind = Kind[pc] /\ m.part = thread[s] /\ m.id = drawn /\ m.mem = mem
      /\ ~live => stray[s] # NoMsg /\ m = stray[s]
  BY <1>R DEF Heard, Message
<1>3. thread[s] = "wait" => Busy(s)
  BY DEF ClientInv
<1>4. ASSUME NEW u \in BOOLEAN, Answer(s, live, u)
      PROVE  /\ \A r \in Server \ {s} : stray'[r] = stray[r] /\ thread'[r] = thread[r]
             /\ stray'[s] \in {stray[s], NoMsg} /\ (~live => stray'[s] = NoMsg)
             /\ \/ thread'[s] = thread[s]
                \/ thread[s] \in {"command", "payload"} /\ live
                   /\ thread'[s] \in {"payload", "done", "garbled"}
  BY <1>0, <1>2, <1>4 DEF Answer, NextRequest
<1>5. CASE TakeCommand(s, m, live)
  BY <1>0, <1>1, <1>3, <1>4, <1>5 DEF TakeCommand
<1>6. CASE TakeFile(s, m, live)
  <2>1. \E u \in BOOLEAN : Answer(s, live, u)
    BY <1>6 DEF TakeFile, Understood
  <2>2. \A r \in Server \ {s} : disk'[r] = disk[r]
    BY <1>0, <1>6 DEF TakeFile
  <2> QED
    BY <1>0, <1>3, <1>4, <1>6, <2>1, <2>2 DEF TakeFile
<1>7. CASE TakeKey(s, m, live)
  <2>1. \E u \in BOOLEAN : Answer(s, live, u)
    BY <1>7 DEF TakeKey, Understood
  <2>2. \A r \in Server \ {s} : key'[r] = key[r]
    BY <1>0, <1>7 DEF TakeKey
  <2> QED
    BY <1>0, <1>3, <1>4, <1>7, <2>1, <2>2 DEF TakeKey
<1>8. CASE TakePermutation(s, m, live)
  <2>1. \E u \in BOOLEAN : Answer(s, live, u)
    BY <1>8 DEF TakePermutation, Understood
  <2> QED
    BY <1>0, <1>3, <1>4, <1>8, <2>1 DEF TakePermutation
<1>9. CASE TakeRequest(s, m, live)
  <2>1. \E u \in BOOLEAN : Answer(s, live, u)
    BY <1>9 DEF TakeRequest, Understood
  <2> QED
    BY <1>0, <1>3, <1>4, <1>9, <2>1 DEF TakeRequest
<1>10. CASE TakeEviction(s, m, live)
  <2>1. m.kind = "evict" /\ m.part = "payload"
    BY <1>10 DEF TakeEviction, Understood
  <2>2. live => pc = "evict" /\ thread[s] = "payload"
    BY <1>2, <2>1, KindFacts
  <2> QED
    BY <1>0, <1>2, <1>3, <1>10, <2>1, <2>2 DEF TakeEviction
<1>11. CASE TakeUnusable(s, m, live)
  <2>1. PICK lost \in BOOLEAN : (live => lost) /\ Restarted(s, lost)
    BY <1>11 DEF TakeUnusable
  <2> QED
    BY <1>0, <1>3, <1>11, <2>1 DEF TakeUnusable, Restarted
<1> QED
  BY <1>R, <1>5, <1>6, <1>7, <1>8, <1>9, <1>10, <1>11 DEF Receive

\* What a restart changes, but for the disk.
LEMMA RestartFacts ==
    ASSUME TypeOK, NEW s \in Server, Restart(s)
    PROVE  /\ UNCHANGED <<pc, mem, drawn, sent, saved>>
           /\ phase'[s] = "command" /\ cursor'[s] = 0 /\ stray'[s] = NoMsg
           /\ \A r \in Server \ {s} :
                 /\ phase'[r] = phase[r] /\ cursor'[r] = cursor[r]
                 /\ key'[r] = key[r] /\ perm'[r] = perm[r] /\ job'[r] = job[r]
                 /\ work'[r] = work[r] /\ stray'[r] = stray[r] /\ thread'[r] = thread[r]
           /\ \/ thread'[s] = thread[s] /\ thread[s] # "wait"
              \/ thread[s] \in {"command", "payload", "wait"} /\ thread'[s] = "lost"
           /\ fatal \subseteq fatal' /\ misled \subseteq misled'
           /\ pc \notin {"down", "aborted"} => fatal' # {}
           /\ "eviction" \in fatal' => "eviction" \in fatal
           /\ pc = "evict" /\ phase[s] = "evict" => s \in misled'
<1>1. PICK lost \in BOOLEAN : Restarted(s, lost)
  BY DEF Restart
<1>2. UNCHANGED <<pc, mem, drawn, sent, saved>>
  BY DEF Restart, local
<1>3. /\ fatal \subseteq fatal' /\ misled \subseteq misled'
      /\ pc \notin {"down", "aborted"} => fatal' # {}
      /\ "eviction" \in fatal' => "eviction" \in fatal
      /\ pc = "evict" /\ phase[s] = "evict" => s \in misled'
  BY DEF Restart
<1> QED
  BY <1>1, <1>2, <1>3 DEF Restarted, TypeOK

\* The steps of a client that runs, between two messages.
LEMMA ClientMoves ==
    ASSUME Create \/ Load \/ Request \/ Leave \/ Crash \/ Client
    PROVE  UNCHANGED <<phase, cursor, disk, key, perm, job, work>>
  BY DEF Create, Load, Request, Leave, Crash, Client, Created, NextServer, Ready,
         RequestDone, RequestFails, InitDone, EvictDone, Save, loop, memory

\* The steps of an eviction.
LEMMA EvictingMoves ==
    ASSUME Meet \/ \E s \in Server : Evicting(s)
    PROVE  UNCHANGED <<pc, mem, drawn, sent, saved, key, perm, stray, failures, fatal, misled>>
  BY DEF Meet, Evicting, Exchange, BeginWrite, WriteFile, Ack, local, memory, loop, faults

\* The client serves one server after the other or both, whatever it hears.
LEMMA NextClientInv ==
    ASSUME TypeOK, ClientInv, [Next]_vars
    PROVE  ClientInv'
<1> USE KindFacts
<1>0. /\ drawn \in Nat /\ mem.tree \in [File -> Nat] /\ saved.tree \in [File -> Nat]
      /\ mem.key \in Nat /\ 0 \in Server /\ 1 \in Server /\ Server = {0, 1}
      /\ MaxDrawn \in Nat
  <2>1. /\ drawn \in Version /\ mem \in Data /\ saved \in Data
    BY DEF TypeOK
  <2>2. \A m \in Data : m.tree \in [File -> Nat] /\ m.key \in Nat
    BY DataFacts
  <2> QED
    BY <2>1, <2>2, DataFacts, Sizes DEF Server
<1>1. CASE Create
  <2>1. mem'.tree = AllFiles(drawn + 1) /\ mem'.key = drawn + 1
    BY <1>1 DEF Create
  <2> QED
    BY <1>0, <1>1, <2>1 DEF Create, ClientInv, AllFiles, Unevicted, loop, Busy, NoServer
<1>2. CASE Load
  BY <1>0, <1>2 DEF Load, ClientInv, FirstServer, NoServer, Server, Answered, Unevicted, loop, Busy
<1>3. CASE Request
  BY <1>0, <1>3 DEF Request, ClientInv, BothServers, NoServer, Answered, Unevicted, loop, Busy
<1>4. CASE Leave
  <2>1. mem'.tree = AllFiles(0)
    BY <1>4 DEF Leave, NoData
  <2> QED
    BY <1>0, <1>4, <2>1 DEF Leave, ClientInv, NoServer, AllFiles, Unevicted, loop, Busy
<1>5. CASE Crash
  <2>1. /\ pc' = "down" /\ mem' = NoData /\ thread' = NoServer /\ saved' \in {saved, NoData}
        /\ drawn' = drawn /\ phase' = phase
    BY <1>5 DEF Crash, loop
  <2>2. NoData.tree = AllFiles(0)
    BY DEF NoData
  <2> QED
    BY <1>0, <2>1, <2>2 DEF ClientInv, NoServer, AllFiles, Unevicted
<1>6. CASE Client
  <2>2. CASE Created
    BY <1>0, <2>2 DEF Created, ClientInv, FirstServer, Answered, Unevicted, loop, Busy
  <2>3. CASE NextServer
    BY <1>0, <2>3 DEF NextServer, ClientInv, Answered, Unevicted, loop, Busy, TypeOK
  <2>4. CASE Ready
    BY <1>0, <2>4 DEF Ready, ClientInv, NoServer, Unevicted, loop, Busy
  <2>5. CASE RequestDone
    BY <1>0, <2>5 DEF RequestDone, ClientInv, FirstServer, Answered, Unevicted, loop, Busy
  <2>6. CASE RequestFails
    BY <1>0, <2>6 DEF RequestFails, ClientInv, NoServer, Unevicted, loop, Busy
  <2>7. CASE InitDone
    BY <1>0, <2>7 DEF InitDone, ClientInv, BothServers, Unevicted, loop, Busy
  <2>8. CASE EvictDone
    <3>1. mem'.tree = [f \in File |-> IF f \in Targets(getEvictLeafID(mem.numEvict))
                                      THEN drawn ELSE mem.tree[f]]
      BY <2>8 DEF EvictDone, TypeOK, Data
    <3>2. \A f \in File : mem'.tree[f] <= drawn
      BY <1>0, <3>1 DEF ClientInv
    <3> QED
      BY <1>0, <2>8, <3>2 DEF EvictDone, ClientInv, NoServer, loop, Busy
  <2>9. CASE Save
    BY <1>0, <2>9 DEF Save, ClientInv, Unevicted, loop, Busy
  <2> QED
    BY <1>6, <2>2, <2>3, <2>4, <2>5, <2>6, <2>7, <2>8, <2>9 DEF Client
<1>7. ASSUME NEW s \in Server, Handle(s) PROVE ClientInv'
  <2>2. /\ UNCHANGED <<pc, mem, drawn, saved>>
        /\ ~Busy(s) /\ thread[s] # "wait"
        /\ phase'[s] = "share" /\ thread'[s] = "wait" => pc = "evict"
        /\ \A r \in Server \ {s} : phase'[r] = phase[r] /\ thread'[r] = thread[r]
        /\ \/ thread'[s] = thread[s]
           \/ /\ thread[s] \in {"command", "payload"}
              /\ thread'[s] \in {"payload", "done", "garbled", "wait", "lost"}
              /\ thread'[s] = "wait" => phase'[s] = "share"
    BY <1>7, HandleFacts
  <2>3. thread' \in [Server -> {"off", "command", "payload", "wait", "done", "garbled", "lost"}]
    <3>1. TypeOK'
      BY <1>7, HandleTypeOK
    <3> QED
      BY <3>1 DEF TypeOK
  <2>4. (pc \notin DOMAIN Kind) => thread' = NoServer
    <3> SUFFICES ASSUME pc \notin DOMAIN Kind PROVE \A r \in Server : thread'[r] = "off"
      BY <2>3 DEF NoServer
    <3>1. \A r \in Server : thread[r] = "off"
      BY DEF ClientInv, NoServer
    <3> QED
      BY <2>2, <3>1
  <2>5. \A r \in Server : /\ thread'[r] = "off" <=> thread[r] = "off"
                          /\ Answered(r) => Answered(r)'
                          /\ thread'[r] = "wait" => pc = "evict" /\ Busy(r)'
    BY <2>2 DEF Answered, Busy, ClientInv
  <2> QED
    BY <1>0, <2>2, <2>4, <2>5 DEF ClientInv, Unevicted
<1>8. ASSUME NEW s \in Server, Restart(s) PROVE ClientInv'
  <2>1. /\ UNCHANGED <<pc, mem, drawn, saved>>
        /\ \A r \in Server \ {s} : phase'[r] = phase[r] /\ thread'[r] = thread[r]
        /\ \/ thread'[s] = thread[s] /\ thread[s] # "wait"
           \/ thread[s] \in {"command", "payload", "wait"} /\ thread'[s] = "lost"
    BY <1>8, RestartFacts
  <2>2. thread' \in [Server -> {"off", "command", "payload", "wait", "done", "garbled", "lost"}]
    BY <1>8 DEF Restart, Restarted, TypeOK
  <2>3. (pc \notin DOMAIN Kind) => thread' = NoServer
    <3> SUFFICES ASSUME pc \notin DOMAIN Kind PROVE \A r \in Server : thread'[r] = "off"
      BY <2>2 DEF NoServer
    <3>1. \A r \in Server : thread[r] = "off"
      BY DEF ClientInv, NoServer
    <3> QED
      BY <2>1, <3>1
  <2>4. \A r \in Server : /\ thread'[r] = "off" <=> thread[r] = "off"
                          /\ Answered(r) => Answered(r)'
                          /\ thread'[r] = "wait" => pc = "evict" /\ Busy(r)'
    BY <2>1 DEF Answered, Busy, ClientInv
  <2> QED
    BY <1>0, <2>1, <2>3, <2>4 DEF ClientInv, Unevicted
<1>9. CASE Meet \/ \E s \in Server : Evicting(s)
  <2>1. UNCHANGED <<pc, mem, drawn, saved>>
    BY <1>9, EvictingMoves
  <2>2. \/ thread' = thread
        \/ \E s \in Server : /\ thread[s] = "wait" /\ thread' = [thread EXCEPT ![s] = "done"]
    BY <1>9 DEF Meet, Evicting, Exchange, BeginWrite, WriteFile, Ack
  <2>3. \A r \in Server : thread'[r] = "wait" => Busy(r)'
    <3>1. \A r \in Server : thread[r] = "wait" => Busy(r)
      BY DEF ClientInv
    <3>2. CASE Meet
      BY <3>1, <3>2 DEF Meet, Busy
    <3>3. ASSUME NEW s \in Server, Exchange(s) \/ BeginWrite(s) \/ WriteFile(s)
          PROVE  \A r \in Server : thread'[r] = "wait" => Busy(r)'
      BY <3>1, <3>3 DEF Exchange, BeginWrite, WriteFile, Busy, TypeOK, loop
    <3>4. ASSUME NEW s \in Server, Ack(s)
          PROVE  \A r \in Server : thread'[r] = "wait" => Busy(r)'
      BY <3>1, <3>4 DEF Ack, Busy, TypeOK
    <3> QED
      BY <1>9, <3>2, <3>3, <3>4 DEF Evicting
  <2>4. (pc \notin DOMAIN Kind) => thread' = NoServer
    BY <2>2 DEF ClientInv, NoServer
  <2>5. \A r \in Server : /\ thread'[r] = "off" <=> thread[r] = "off"
                          /\ Answered(r) => Answered(r)'
                          /\ thread'[r] = "wait" => thread[r] = "wait"
    BY <2>2 DEF Answered, TypeOK
  <2> QED
    BY <1>0, <2>1, <2>3, <2>4, <2>5 DEF ClientInv, Unevicted
<1>10. CASE UNCHANGED vars
  BY <1>10 DEF ClientInv, vars, local, loop, Unevicted, Answered, Busy
<1> QED
  BY <1>1, <1>2, <1>3, <1>4, <1>5, <1>6, <1>7, <1>8, <1>9, <1>10 DEF Next, User

\* A server that waits for a command or a payload is at the beginning, but in
\* the transfer of a tree.
LEMMA HandleCursor ==
    ASSUME TypeOK, ClientInv, ServerInv, NEW s \in Server, Handle(s)
    PROVE  phase'[s] # "tree" => cursor'[s] = 0
<1>0. /\ phase \in [Server -> Phases] /\ cursor \in [Server -> 0 .. KeyPos]
      /\ phase[s] \notin {"tree", "write"} => cursor[s] = 0
  BY DEF TypeOK, ServerInv
<1>R. PICK m \in Msg, live \in BOOLEAN : Receive(s, m, live)
  BY HandleMeans
<1>1. CASE TakeCommand(s, m, live)
  BY <1>0, <1>1 DEF TakeCommand
<1>2. CASE TakeFile(s, m, live)
  BY <1>0, <1>2 DEF TakeFile
<1>3. CASE TakeKey(s, m, live)
  BY <1>0, <1>3 DEF TakeKey
<1>4. CASE TakePermutation(s, m, live)
  BY <1>0, <1>4 DEF TakePermutation
<1>5. CASE TakeRequest(s, m, live)
  BY <1>0, <1>5 DEF TakeRequest
<1>6. CASE TakeEviction(s, m, live)
  BY <1>0, <1>6 DEF TakeEviction
<1>7. CASE TakeUnusable(s, m, live)
  BY <1>0, <1>7 DEF TakeUnusable, Restarted
<1> QED
  BY <1>R, <1>1, <1>2, <1>3, <1>4, <1>5, <1>6, <1>7 DEF Receive

\* A file that is written.
LEMMA WriteFileFacts ==
    ASSUME TypeOK, NEW s \in Server, WriteFile(s)
    PROVE  /\ UNCHANGED <<phase, job, work>>
           /\ cursor[s] \in 0 .. LastFile - 1 /\ cursor'[s] = cursor[s] + 1
           /\ JobLeaf(job[s]) \in Leaf
           /\ WriteOrder(JobLeaf(job[s]))[cursor[s]] \in File
           /\ \A f \in File : disk'[s][f] =
                 IF f = WriteOrder(JobLeaf(job[s]))[cursor[s]] THEN work[s] ELSE disk[s][f]
           /\ \A r \in Server \ {s} : disk'[r] = disk[r] /\ cursor'[r] = cursor[r]
<1>1. job[s].mem \in Data /\ JobLeaf(job[s]) \in Leaf
  <2>1. job[s].mem \in Data
    BY DEF TypeOK
  <2>2. job[s].mem.numEvict \in 0 .. N_leaf - 1
    BY <2>1, DataFacts
  <2> QED
    BY <2>1, <2>2, JobLeafFacts DEF JobLeaf
<1>2. UNCHANGED <<phase, job, work>> /\ cursor[s] < LastFile
  BY DEF WriteFile, memory
<1>3. /\ cursor[s] \in 0 .. LastFile - 1 /\ cursor'[s] = cursor[s] + 1
      /\ \A r \in Server \ {s} : cursor'[r] = cursor[r]
  BY <1>2, Sizes DEF WriteFile, TypeOK
<1> DEFINE w == WriteOrder(JobLeaf(job[s]))[cursor[s]]
<1>4. w \in File
  BY <1>1, <1>3, WriteOrderFacts
<1>5. disk' = [disk EXCEPT ![s][w] = work[s]] /\ disk \in [Server -> [File -> Version]]
  BY DEF WriteFile, TypeOK
<1>6. /\ \A f \in File : disk'[s][f] = IF f = w THEN work[s] ELSE disk[s][f]
      /\ \A r \in Server \ {s} : disk'[r] = disk[r]
  <2> HIDE DEF w
  <2> QED
    BY <1>4, <1>5
<1> QED
  BY <1>1, <1>2, <1>3, <1>4, <1>6

\* The servers write what they have computed, file after file.
LEMMA NextServerInv ==
    ASSUME TypeOK, ClientInv, ServerInv, [Next]_vars
    PROVE  ServerInv'
<1>0. /\ phase \in [Server -> Phases] /\ cursor \in [Server -> 0 .. KeyPos]
      /\ work \in [Server -> Version] /\ job \in [Server -> [id : Version, mem : Data]]
      /\ Version \subseteq Nat /\ LastFile \in Nat /\ KeyPos \in Nat
      /\ 0 \in Server /\ Server = {0, 1}
  BY DataFacts, Sizes DEF TypeOK, Server
<1> SUFFICES ASSUME NEW r \in Server
             PROVE  /\ phase'[r] = "write" => cursor'[r] <= LastFile
                    /\ phase'[r] \notin {"tree", "write"} => cursor'[r] = 0
                    /\ phase'[r] \in {"exchange", "write"} => work'[r] \in {0, job'[r].id}
                    /\ phase'[r] = "write" => \A i \in 0 .. cursor'[r] - 1 :
                          AtLeast(r, WriteOrder(JobLeaf(job[r]))[i], job[r].id)'
  BY DEF ServerInv, AtLeast, JobLeaf
<1>1. /\ phase[r] = "write" => cursor[r] <= LastFile
      /\ phase[r] \notin {"tree", "write"} => cursor[r] = 0
      /\ phase[r] \in {"exchange", "write"} => work[r] \in {0, job[r].id}
      /\ phase[r] = "write" => \A i \in 0 .. cursor[r] - 1 :
            AtLeast(r, WriteOrder(JobLeaf(job[r]))[i], job[r].id)
  BY DEF ServerInv
<1>2. ASSUME phase'[r] = phase[r], cursor'[r] = cursor[r], work'[r] = work[r],
             job'[r] = job[r], disk'[r] = disk[r]
      PROVE  /\ phase'[r] = "write" => cursor'[r] <= LastFile
             /\ phase'[r] \notin {"tree", "write"} => cursor'[r] = 0
             /\ phase'[r] \in {"exchange", "write"} => work'[r] \in {0, job'[r].id}
             /\ phase'[r] = "write" => \A i \in 0 .. cursor'[r] - 1 :
                   AtLeast(r, WriteOrder(JobLeaf(job[r]))[i], job[r].id)'
  BY <1>1, <1>2 DEF AtLeast, JobLeaf
<1>3. CASE Create \/ Load \/ Request \/ Leave \/ Crash \/ Client
  BY <1>2, <1>3, ClientMoves
<1>4. ASSUME NEW s \in Server, Handle(s)
      PROVE  /\ r = s => phase'[r] \notin {"exchange", "write"}
             /\ r = s => (phase'[r] \notin {"tree", "write"} => cursor'[r] = 0)
             /\ r # s => /\ phase'[r] = phase[r] /\ cursor'[r] = cursor[r] /\ work'[r] = work[r]
                         /\ job'[r] = job[r] /\ disk'[r] = disk[r]
  <2>1. phase'[s] \notin {"exchange", "write"}
    BY <1>4, HandleFacts
  <2>2. phase'[s] # "tree" => cursor'[s] = 0
    BY <1>4, HandleCursor
  <2>3. r # s => /\ phase'[r] = phase[r] /\ cursor'[r] = cursor[r] /\ work'[r] = work[r]
                 /\ job'[r] = job[r] /\ disk'[r] = disk[r]
    BY <1>4, HandleFacts
  <2> QED
    BY <2>1, <2>2, <2>3
<1>5. CASE Meet
  <2>1. phase'[r] = "exchange" /\ cursor'[r] = cursor[r] /\ phase[r] = "share" /\ job' = job
    BY <1>5 DEF Meet
  <2>2. work'[r] = Computed /\ Computed \in {0, job[0].id}
    BY <1>5 DEF Meet, Computed
  <2>3. Computed \in {0, job[r].id}
    BY <1>0, <2>2 DEF Computed
  <2> QED
    BY <1>1, <2>1, <2>2, <2>3
<1>6. ASSUME NEW s \in Server, Exchange(s)
      PROVE  /\ phase'[r] = phase[r] /\ cursor'[r] = cursor[r] /\ work'[r] = work[r]
             /\ job'[r] = job[r] /\ disk'[r] = disk[r]
  BY <1>6 DEF Exchange, loop
<1>7. ASSUME NEW s \in Server, BeginWrite(s)
      PROVE  /\ phase'[r] = "write" => cursor'[r] <= LastFile
             /\ phase'[r] \notin {"tree", "write"} => cursor'[r] = 0
             /\ phase'[r] \in {"exchange", "write"} => work'[r] \in {0, job'[r].id}
             /\ phase'[r] = "write" => \A i \in 0 .. cursor'[r] - 1 :
                   AtLeast(r, WriteOrder(JobLeaf(job[r]))[i], job[r].id)'
  <2>1. CASE r # s
    BY <1>0, <1>2, <1>7, <2>1 DEF BeginWrite, memory
  <2>2. CASE r = s
    <3>1. phase[r] = "exchange" /\ phase'[r] = "write" /\ cursor'[r] = 0
          /\ work' = work /\ job' = job
      BY <1>0, <1>7, <2>2 DEF BeginWrite, memory
    <3>2. 0 .. 0 - 1 = {}
      OBVIOUS
    <3> QED
      BY <1>0, <1>1, <3>1, <3>2
  <2> QED
    BY <2>1, <2>2
<1>8. ASSUME NEW s \in Server, WriteFile(s)
      PROVE  /\ phase'[r] = "write" => cursor'[r] <= LastFile
             /\ phase'[r] \notin {"tree", "write"} => cursor'[r] = 0
             /\ phase'[r] \in {"exchange", "write"} => work'[r] \in {0, job'[r].id}
             /\ phase'[r] = "write" => \A i \in 0 .. cursor'[r] - 1 :
                   AtLeast(r, WriteOrder(JobLeaf(job[r]))[i], job[r].id)'
  <2>0. phase[s] = "write" /\ UNCHANGED <<phase, job, work>>
    BY <1>8, WriteFileFacts DEF WriteFile
  <2>1. CASE r # s
    BY <1>2, <1>8, <2>1, WriteFileFacts
  <2>2. CASE r = s
    <3> DEFINE W == WriteOrder(JobLeaf(job[r]))
    <3>1. /\ cursor[r] \in 0 .. LastFile - 1 /\ cursor'[r] = cursor[r] + 1
          /\ JobLeaf(job[r]) \in Leaf
          /\ \A f \in File : disk'[r][f] = IF f = W[cursor[r]] THEN work[r] ELSE disk[r][f]
      BY <1>8, <2>2, WriteFileFacts
    <3>2. work[r] = 0 \/ work[r] >= job[r].id
      <4> DEFINE id == job[r].id
      <4>1. work[r] \in {0, id}
        BY <1>1, <2>0, <2>2
      <4>2. id \in Nat
        BY <1>0
      <4> HIDE DEF id
      <4>3. work[r] = 0 \/ work[r] >= id
        BY <4>1, <4>2
      <4> QED
        BY <4>3 DEF id
    <3>3. ASSUME NEW i \in 0 .. cursor'[r] - 1
          PROVE  disk'[r][W[i]] = 0 \/ disk'[r][W[i]] >= job[r].id
      <4>1. i \in 0 .. LastFile - 1 /\ (i # cursor[r] => i \in 0 .. cursor[r] - 1)
        BY <1>0, <3>1
      <4>2. W[i] \in File
        BY <3>1, <4>1, WriteOrderFacts
      <4>3. i # cursor[r] => disk[r][W[i]] = 0 \/ disk[r][W[i]] >= job[r].id
        BY <1>1, <2>0, <2>2, <4>1 DEF AtLeast
      <4> QED
        BY <3>1, <3>2, <4>2, <4>3
    <3>4. \A i \in 0 .. cursor'[r] - 1 : AtLeast(r, WriteOrder(JobLeaf(job[r]))[i], job[r].id)'
      BY <2>0, <3>3 DEF AtLeast, JobLeaf
    <3>5. cursor'[r] <= LastFile /\ work'[r] \in {0, job'[r].id}
      BY <1>0, <1>1, <2>0, <2>2, <3>1
    <3> QED
      BY <2>0, <2>2, <3>4, <3>5
  <2> QED
    BY <2>1, <2>2
<1>9. ASSUME NEW s \in Server, Ack(s)
      PROVE  \/ phase'[r] = "command" /\ cursor'[r] = 0
             \/ /\ phase'[r] = phase[r] /\ cursor'[r] = cursor[r] /\ work'[r] = work[r]
                /\ job'[r] = job[r] /\ disk'[r] = disk[r]
  BY <1>0, <1>9 DEF Ack
<1>10. ASSUME NEW s \in Server, Restart(s)
       PROVE  \/ phase'[r] = "command" /\ cursor'[r] = 0
              \/ /\ phase'[r] = phase[r] /\ cursor'[r] = cursor[r] /\ work'[r] = work[r]
                 /\ job'[r] = job[r] /\ disk'[r] = disk[r]
  BY <1>10, RestartFacts, RestartDisk
<1>11. CASE UNCHANGED vars
  BY <1>2, <1>11 DEF vars, loop, memory
<1> QED
  BY <1>2, <1>3, <1>4, <1>5, <1>6, <1>7, <1>8, <1>9, <1>10, <1>11 DEF Next, User, Evicting

\* The steps of an eviction, in the words of the other server and of the client.
LEMMA EvictingFacts ==
    ASSUME TypeOK, NEW s \in Server, Evicting(s)
    PROVE  /\ UNCHANGED <<pc, mem, drawn, sent, saved, key, perm, stray, failures, fatal, misled>>
           /\ phase[s] \in {"exchange", "write"} /\ phase'[s] \in {"exchange", "write", "command"}
           /\ phase'[s] # "command" => job'[s] = job[s] /\ work'[s] = work[s] /\ thread'[s] = thread[s]
           /\ phase'[s] = "command" => phase[s] = "write" /\ cursor[s] = LastFile
           /\ phase[s] = "write" /\ phase'[s] # "command" => phase'[s] = "write"
           /\ phase'[s] = "command" =>
                 thread'[s] = IF thread[s] = "wait" THEN "done" ELSE thread[s]
           /\ \A r \in Server \ {s} :
                 /\ phase'[r] = phase[r] /\ cursor'[r] = cursor[r] /\ disk'[r] = disk[r]
                 /\ job'[r] = job[r] /\ work'[r] = work[r] /\ thread'[r] = thread[r]
<1> USE DEF local, memory, loop, faults
<1>1. CASE Exchange(s)
  BY <1>1 DEF Exchange
<1>2. CASE BeginWrite(s)
  BY <1>2 DEF BeginWrite, TypeOK
<1>3. CASE WriteFile(s)
  BY <1>3, WriteFileFacts DEF WriteFile
<1>4. CASE Ack(s)
  BY <1>4 DEF Ack, TypeOK
<1> QED
  BY <1>1, <1>2, <1>3, <1>4 DEF Evicting

\* A server that waits for a file of a tree, and a late message, after a step in
\* which it has heard the client: it has waited for one before, or the client
\* transfers its tree.
LEMMA HandleTree ==
    ASSUME TypeOK, ClientInv, NEW s \in Server, Handle(s),
           phase'[s] = "tree", stray'[s] # NoMsg
    PROVE  /\ stray'[s] = stray[s]
           /\ \/ phase[s] = "tree" /\ (pc = "request" => thread'[s] # "done" \/ thread'[s] = thread[s])
              \/ pc = "transfer"
<1>0. /\ phase \in [Server -> Phases] /\ stray \in [Server -> Msg \cup {NoMsg}]
      /\ thread \in [Server -> {"off", "command", "payload", "wait", "done", "garbled", "lost"}]
  BY DEF TypeOK
<1>1. stray'[s] = stray[s]
  BY HandleFacts
<1>2. ~(stray[s] # NoMsg /\ Receive(s, stray[s], FALSE))
  <2> SUFFICES ASSUME Receive(s, stray[s], FALSE) PROVE stray'[s] = NoMsg
    OBVIOUS
  <2> DEFINE m == stray[s]
  <2>1. Receive(s, m, FALSE)
    OBVIOUS
  <2> HIDE DEF m
  <2>2. \/ \E u \in BOOLEAN : Answer(s, FALSE, u)
        \/ TakeEviction(s, m, FALSE) \/ TakeUnusable(s, m, FALSE)
    BY <2>1 DEF Receive, TakeCommand, TakeFile, TakeKey, TakePermutation, TakeRequest, Understood
  <2> QED
    BY <1>0, <2>2 DEF Answer, TakeEviction, TakeUnusable, Restarted
<1>3. thread[s] \in {"command", "payload"} /\ Receive(s, Message(s), TRUE)
  BY <1>2, <1>1 DEF Handle
<1>4. pc \in DOMAIN Kind
  BY <1>3 DEF ClientInv, NoServer
<1> DEFINE m == Message(s)
<1>5. m.kind = Kind[pc] /\ m.part = thread[s]
  BY DEF Message
<1>6. Receive(s, m, TRUE)
  BY <1>3
<1> HIDE DEF m
<1>7. CASE TakeCommand(s, m, TRUE)
  <2>1. phase'[s] = IF m.part = "command" THEN m.kind ELSE "command"
    BY <1>0, <1>7 DEF TakeCommand
  <2>2. m.kind = "tree"
    BY <2>1
  <2>3. Kind[pc] = "tree"
    BY <1>5, <2>2
  <2>4. pc = "transfer"
    BY <1>4, <2>3, KindFacts
  <2> QED
    BY <1>1, <2>4
<1>8. CASE TakeFile(s, m, TRUE)
  <2>1. PICK u \in BOOLEAN : Answer(s, TRUE, u) /\ (u => m.kind = "tree")
    BY <1>8 DEF TakeFile, Understood
  <2>2. pc = "request" => ~u
    BY <1>5, <2>1, KindFacts
  <2> QED
    <3>1. pc = "request" => thread'[s] # "done"
      BY <1>0, <2>1, <2>2 DEF Answer, NextRequest
    <3> QED
      BY <1>1, <1>8, <3>1 DEF TakeFile
<1>9. CASE TakeKey(s, m, TRUE) \/ TakePermutation(s, m, TRUE) \/ TakeRequest(s, m, TRUE)
           \/ TakeEviction(s, m, TRUE) \/ TakeUnusable(s, m, TRUE)
  BY <1>0, <1>9 DEF TakeKey, TakePermutation, TakeRequest, TakeEviction, TakeUnusable, Restarted
<1> QED
  BY <1>6, <1>7, <1>8, <1>9 DEF Receive

\* No file of an old tree comes late to a server of a client that evicts.
LEMMA NextStrayInv ==
    ASSUME TypeOK, ClientInv, StrayInv, [Next]_vars
    PROVE  StrayInv'
<1> SUFFICES ASSUME NEW r \in Server,
                    phase'[r] = "tree", stray'[r] # NoMsg, stray'[r].kind = "tree"
             PROVE  /\ Unevicted(saved')
                    /\ pc' \notin {"init", "evict", "save"}
                    /\ pc' = "request" => thread'[r] # "done"
  BY DEF StrayInv, Unevicted
<1> USE KindFacts
<1>0. phase[r] = "tree" /\ stray'[r] = stray[r] =>
          /\ Unevicted(saved)
          /\ pc \notin {"init", "evict", "save"}
          /\ pc = "request" => thread[r] # "done"
  BY DEF StrayInv
<1>1. pc \in {"create", "transfer"} => Unevicted(mem)
  BY DEF ClientInv
<1>2. CASE Create \/ Load \/ Request \/ Leave
  BY <1>0, <1>2 DEF Create, Load, Request, Leave, BothServers, loop, Unevicted
<1>3. CASE Crash
  <2>1. phase' = phase /\ pc' = "down" /\ saved' \in {saved, NoData}
        /\ (pc \notin {"create", "save"} => saved' = saved)
    BY <1>3 DEF Crash, loop
  <2>2. Unevicted(NoData)
    BY DEF Unevicted, NoData
  <2>3. CASE stray'[r] = stray[r]
    BY <1>0, <2>1, <2>2, <2>3
  <2>4. CASE stray'[r] # stray[r]
    <3>1. stray'[r] = Message(r)
      BY <1>3, <2>4 DEF Crash
    <3>2. thread[r] \in {"command", "payload"}
      BY <1>3, <2>4 DEF Crash
    <3>3. Kind[pc] = "tree" /\ pc \in DOMAIN Kind
      BY <3>1, <3>2 DEF Message, ClientInv, NoServer
    <3>4. pc = "transfer" /\ saved = mem
      BY <3>3 DEF ClientInv
    <3> QED
      BY <1>1, <2>1, <3>4
  <2> QED
    BY <2>3, <2>4
<1>4. CASE Client
  BY <1>0, <1>1, <1>4 DEF Client, Created, NextServer, Ready, RequestDone, RequestFails, InitDone,
     EvictDone, Save, AllAnswered, Answered, loop
<1>5. ASSUME NEW s \in Server, Handle(s)
      PROVE  /\ Unevicted(saved')
             /\ pc' \notin {"init", "evict", "save"}
             /\ pc' = "request" => thread'[r] # "done"
  <2>1. UNCHANGED <<pc, saved>>
    BY <1>5, HandleFacts
  <2>2. CASE r # s
    <3>1. phase'[r] = phase[r] /\ stray'[r] = stray[r] /\ thread'[r] = thread[r]
      BY <1>5, <2>2, HandleFacts
    <3> QED
      BY <1>0, <2>1, <3>1
  <2>3. CASE r = s
    <3>1. /\ stray'[s] = stray[s]
          /\ \/ phase[s] = "tree" /\ (pc = "request" => thread'[s] # "done" \/ thread'[s] = thread[s])
             \/ pc = "transfer"
      BY <1>5, <2>3, HandleTree
    <3>2. pc = "transfer" => saved = mem
      BY DEF ClientInv
    <3> QED
      BY <1>0, <1>1, <2>1, <2>3, <3>1, <3>2
  <2> QED
    BY <2>2, <2>3
<1>6. CASE Meet
  BY <1>6 DEF Meet
<1>7. ASSUME NEW s \in Server, Evicting(s)
      PROVE  UNCHANGED <<pc, saved, stray>> /\ phase'[r] = phase[r] /\ thread'[r] = thread[r]
  <2>1. r # s
    BY <1>7, EvictingFacts
  <2> QED
    BY <1>7, <2>1, EvictingFacts
<1>8. ASSUME NEW s \in Server, Restart(s)
      PROVE  /\ UNCHANGED <<pc, saved>> /\ phase'[r] = phase[r] /\ stray'[r] = stray[r]
             /\ thread'[r] = thread[r]
  <2>1. r # s
    BY <1>8, RestartFacts
  <2> QED
    BY <1>8, <2>1, RestartFacts
<1>9. CASE UNCHANGED vars
  BY <1>0, <1>9 DEF vars, loop, local
<1> QED
  BY <1>0, <1>2, <1>3, <1>4, <1>5, <1>6, <1>7, <1>8, <1>9 DEF Next, User

\* What has gone wrong is not forgotten.
LEMMA FaultsGrow ==
    ASSUME TypeOK, ClientInv, [Next]_vars
    PROVE  fatal \subseteq fatal' /\ misled \subseteq misled'
<1>1. CASE Create \/ Load \/ Request \/ Leave \/ Client
  BY <1>1 DEF Create, Load, Request, Leave, Client, Created, NextServer, Ready,
     RequestDone, RequestFails, InitDone, EvictDone, Save, faults
<1>2. CASE Crash
  BY <1>2 DEF Crash
<1>3. ASSUME NEW s \in Server, Handle(s) PROVE fatal' = fatal /\ misled' = misled
  BY <1>3, HandleFacts
<1>4. ASSUME NEW s \in Server, Evicting(s) PROVE fatal' = fatal /\ misled' = misled
  BY <1>4, EvictingFacts
<1>5. ASSUME NEW s \in Server, Restart(s)
      PROVE  fatal \subseteq fatal' /\ misled \subseteq misled'
  BY <1>5, RestartFacts
<1>6. CASE Meet \/ UNCHANGED vars
  BY <1>6 DEF Meet, vars, faults
<1> QED
  BY <1>1, <1>2, <1>3, <1>4, <1>5, <1>6 DEF Next, User

\* An eviction is the client's or one of a dead client, and no client gets past a
\* server that works on one.
LEMMA NextJobInv ==
    ASSUME TypeOK, ClientInv, JobInv, [Next]_vars
    PROVE  JobInv'
<1> DEFINE Mine(s) ==
               /\ pc \notin {"menu", "request", "init", "save", "aborted"}
               /\ pc \in {"transfer", "load"} => thread[s] \in {"off", "command", "lost"}
               /\ pc = "evict" => thread[s] = "wait" /\ job[s] = [id |-> drawn, mem |-> mem]
               /\ \A f \in File : saved.tree[f] = saved.key \/ saved.tree[f] <= job[s].id
<1> USE KindFacts, OtherFacts
<1>F. fatal \subseteq fatal'
  BY FaultsGrow
<1> SUFFICES ASSUME "eviction" \notin fatal'
             PROVE  /\ \A s \in Server : stray'[s] # NoMsg => stray'[s].kind # "evict"
                    /\ \A s \in Server : Busy(s)' => Mine(s)'
                    /\ Busy(0)' /\ Busy(1)' => job'[0] = job'[1]
  BY DEF JobInv, Busy
<1>0. /\ \A s \in Server : stray[s] # NoMsg => stray[s].kind # "evict"
      /\ \A s \in Server : Busy(s) => Mine(s)
      /\ Busy(0) /\ Busy(1) => job[0] = job[1]
  BY <1>F DEF JobInv
<1> HIDE DEF Mine
<1>1. ASSUME UNCHANGED <<pc, mem, drawn, saved>>,
             \A s \in Server : stray'[s] \in {stray[s], NoMsg},
             \A s \in Server : Busy(s)' => Busy(s) /\ job'[s] = job[s] /\ thread'[s] = thread[s]
      PROVE  /\ \A s \in Server : stray'[s] # NoMsg => stray'[s].kind # "evict"
             /\ \A s \in Server : Busy(s)' => Mine(s)'
             /\ Busy(0)' /\ Busy(1)' => job'[0] = job'[1]
  <2>1. \A s \in Server : stray'[s] # NoMsg => stray'[s].kind # "evict"
    BY <1>0, <1>1
  <2>2. \A s \in Server : Busy(s)' => Mine(s)'
    BY <1>0, <1>1 DEF Mine
  <2>3. Busy(0)' /\ Busy(1)' => job'[0] = job'[1]
    BY <1>0, <1>1
  <2> QED
    BY <2>1, <2>2, <2>3
<1>2. ASSUME UNCHANGED <<job, phase, stray>>, \A s \in Server : Busy(s) => Mine(s)'
      PROVE  /\ \A s \in Server : stray'[s] # NoMsg => stray'[s].kind # "evict"
             /\ \A s \in Server : Busy(s)' => Mine(s)'
             /\ Busy(0)' /\ Busy(1)' => job'[0] = job'[1]
  BY <1>0, <1>2 DEF Busy
<1>3. \A s \in Server : Busy(s) =>
          /\ pc \notin {"menu", "request", "init", "save", "aborted"}
          /\ pc \in {"transfer", "load"} => thread[s] \in {"off", "command", "lost"}
          /\ pc = "evict" => thread[s] = "wait"
          /\ \A f \in File : saved.tree[f] = saved.key \/ saved.tree[f] <= job[s].id
  BY <1>0 DEF Mine
<1>4. CASE Create \/ Load \/ Request \/ Leave
  <2>1. UNCHANGED <<job, phase, stray, saved>>
    BY <1>4 DEF Create, Load, Request, Leave, loop, memory
  <2>2. ASSUME NEW s \in Server, Busy(s) PROVE Mine(s)'
    BY <1>3, <1>4, <2>1, <2>2 DEF Mine, Create, Load, Request, Leave, FirstServer
  <2> QED
    BY <1>2, <2>1, <2>2
<1>5. CASE Crash
  <2>1. UNCHANGED <<job, phase>> /\ pc' = "down" /\ saved' \in {saved, NoData}
    BY <1>5 DEF Crash, loop, memory
  <2>2. \A s \in Server : Busy(s)' => Mine(s)'
    <3>1. \A f \in File : NoData.tree[f] = NoData.key
      BY DEF NoData, AllFiles
    <3> QED
      BY <1>3, <2>1, <3>1 DEF Mine, Busy
  <2>3. ASSUME NEW s \in Server, stray'[s] # NoMsg PROVE stray'[s].kind # "evict"
    <3>1. CASE stray'[s] = stray[s]
      BY <1>0, <2>3, <3>1
    <3>2. CASE stray'[s] # stray[s]
      <4>1. stray'[s] = Message(s) /\ thread[s] \in {"command", "payload"}
        BY <1>5, <3>2 DEF Crash
      <4>2. pc # "evict"
        BY <1>5, <3>2 DEF Crash
      <4>3. pc \in DOMAIN Kind
        BY <4>1 DEF ClientInv, NoServer
      <4>4. Message(s).kind = Kind[pc]
        BY DEF Message
      <4>5. Kind[pc] # "evict"
        BY <4>2, <4>3
      <4> QED
        BY <4>1, <4>4, <4>5
    <3> QED
      BY <3>1, <3>2
  <2>4. Busy(0)' /\ Busy(1)' => job'[0] = job'[1]
    BY <1>0, <2>1 DEF Busy
  <2> QED
    BY <2>2, <2>3, <2>4
<1>6. CASE Client
  <2>1. UNCHANGED <<job, phase, stray>>
    BY <1>6 DEF Client, Created, NextServer, Ready, RequestDone, RequestFails, InitDone,
       EvictDone, Save, loop, memory
  <2>2. ASSUME NEW s \in Server, Busy(s) PROVE Mine(s)'
    <3>1. CASE Created
      <4>1. \A f \in File : saved'.tree[f] = saved'.key
        BY <3>1 DEF Created, ClientInv, Unevicted, AllFiles
      <4> QED
        BY <3>1, <4>1 DEF Mine, Created, FirstServer
    <3>2. CASE NextServer
      BY <1>3, <2>1, <2>2, <3>2 DEF Mine, NextServer, TypeOK
    <3>3. CASE Ready
      BY <1>3, <2>2, <3>3 DEF Ready, AllAnswered, Answered
    <3>4. CASE RequestDone \/ RequestFails \/ InitDone \/ Save
      BY <1>3, <2>2, <3>4 DEF RequestDone, RequestFails, InitDone, Save
    <3>5. CASE EvictDone
      BY <1>3, <2>2, <3>5 DEF EvictDone, AllAnswered, Answered
    <3> QED
      BY <1>6, <3>1, <3>2, <3>3, <3>4, <3>5 DEF Client
  <2> QED
    BY <1>2, <2>1, <2>2
<1>7. ASSUME NEW s \in Server, Handle(s)
      PROVE  /\ \A r \in Server : stray'[r] # NoMsg => stray'[r].kind # "evict"
             /\ \A r \in Server : Busy(r)' => Mine(r)'
             /\ Busy(0)' /\ Busy(1)' => job'[0] = job'[1]
  <2>1. /\ UNCHANGED <<pc, mem, drawn, saved>>
        /\ \A r \in Server : stray'[r] \in {stray[r], NoMsg}
        /\ \A r \in Server \ {s} : /\ phase'[r] = phase[r] /\ job'[r] = job[r]
                                   /\ thread'[r] = thread[r]
    <3>1. UNCHANGED <<pc, mem, drawn, saved>> /\ stray'[s] \in {stray[s], NoMsg}
      BY <1>7, HandleFacts
    <3>2. \A r \in Server \ {s} : /\ phase'[r] = phase[r] /\ job'[r] = job[r]
                                  /\ thread'[r] = thread[r] /\ stray'[r] = stray[r]
      BY <1>7, HandleFacts
    <3> QED
      BY <3>1, <3>2
  <2>2. Busy(s)' => /\ phase'[s] = "share" /\ pc = "evict" /\ thread'[s] = "wait"
                    /\ job'[s] = [id |-> drawn, mem |-> mem]
    BY <1>0, <1>7, HandleFacts DEF Busy
  <2>3. CASE ~Busy(s)'
    <3>1. \A r \in Server : Busy(r)' => Busy(r) /\ job'[r] = job[r] /\ thread'[r] = thread[r]
      BY <2>1, <2>3 DEF Busy
    <3> QED
      BY <1>1, <2>1, <3>1
  <2>4. CASE Busy(s)'
    <3>1. \A f \in File : saved.tree[f] <= job'[s].id
      BY <2>2, <2>4 DEF ClientInv
    <3>2. Mine(s)'
      BY <2>1, <2>2, <2>4, <3>1 DEF Mine
    <3>3. \A r \in Server : r # s /\ Busy(r)' => Mine(r)' /\ job'[r] = job'[s]
      <4>1. \A r \in Server : r # s /\ Busy(r)' => Busy(r)
        BY <2>1 DEF Busy
      <4> QED
        BY <1>0, <2>1, <2>2, <2>4, <4>1 DEF Mine
    <3>4. \A r \in Server : stray'[r] # NoMsg => stray'[r].kind # "evict"
      BY <1>0, <2>1
    <3>5. Busy(0)' /\ Busy(1)' => job'[0] = job'[1]
      BY <3>3
    <3> QED
      BY <3>2, <3>3, <3>4, <3>5
  <2> QED
    BY <2>3, <2>4
<1>8. CASE Meet
  <2>1. \A s \in Server : Busy(s)
    BY <1>8 DEF Meet, Busy
  <2>2. UNCHANGED <<pc, mem, drawn, saved, stray, job, thread>>
    BY <1>8 DEF Meet, local
  <2> QED
    BY <1>1, <2>1, <2>2
<1>9. ASSUME NEW s \in Server, Evicting(s)
      PROVE  /\ UNCHANGED <<pc, mem, drawn, saved, stray>>
             /\ \A r \in Server : Busy(r)' => Busy(r) /\ job'[r] = job[r] /\ thread'[r] = thread[r]
  BY <1>9, EvictingFacts DEF Busy
<1>10. ASSUME NEW s \in Server, Restart(s)
       PROVE  /\ UNCHANGED <<pc, mem, drawn, saved>>
              /\ \A r \in Server : stray'[r] \in {stray[r], NoMsg}
              /\ \A r \in Server : Busy(r)' => Busy(r) /\ job'[r] = job[r] /\ thread'[r] = thread[r]
  BY <1>10, RestartFacts DEF Busy
<1>11. CASE UNCHANGED vars
  BY <1>1, <1>11 DEF vars, local, loop, memory, Busy
<1> QED
  BY <1>1, <1>4, <1>5, <1>6, <1>7, <1>8, <1>9, <1>10, <1>11 DEF Next, User

\* A server that receives files: they are garbled, or nobody has evicted.
LEMMA HandleDisk ==
    ASSUME TypeOK, ClientInv, StrayInv, NEW s \in Server, Handle(s)
    PROVE  \/ \A r \in Server, f \in File : disk'[r][f] \in {0, disk[r][f]}
           \/ Unevicted(saved) /\ pc \notin {"init", "evict", "save"}
<1>0. /\ phase \in [Server -> Phases] /\ disk \in [Server -> [File -> Version]]
      /\ stray \in [Server -> Msg \cup {NoMsg}]
  BY DEF TypeOK
<1>R. PICK m \in Msg, live \in BOOLEAN : Heard(s, m, live) /\ Receive(s, m, live)
  BY HandleMeans
<1>1. CASE TakeFile(s, m, live)
  <2> DEFINE right == Understood(s, m) /\ m.pos = cursor[s]
  <2>1. disk' = [disk EXCEPT ![s][cursor[s]] = IF right THEN m.mem.key ELSE 0]
    BY <1>1 DEF TakeFile
  <2>2. CASE ~right
    <3>1. disk' = [disk EXCEPT ![s][cursor[s]] = 0]
      BY <2>1, <2>2
    <3> QED
      BY <1>0, <3>1
  <2>3. CASE right
    <3>1. phase[s] = "tree" /\ m.kind = "tree"
      BY <1>1, <2>3 DEF TakeFile, Understood
    <3>2. CASE live
      <4>1. m = Message(s) /\ pc \in DOMAIN Kind
        BY <1>R, <3>2 DEF Heard
      <4>2. Kind[pc] = "tree"
        BY <3>1, <4>1 DEF Message
      <4>3. pc = "transfer"
        BY <4>1, <4>2, KindFacts
      <4> QED
        BY <4>3, KindFacts DEF ClientInv
    <3>3. CASE ~live
      <4>1. stray[s] # NoMsg /\ m = stray[s]
        BY <1>R, <3>3 DEF Heard
      <4>2. stray[s].kind = "tree"
        BY <3>1, <4>1
      <4> QED
        BY <3>1, <4>1, <4>2 DEF StrayInv
    <3> QED
      BY <3>2, <3>3
  <2> QED
    BY <2>2, <2>3
<1>2. CASE ~TakeFile(s, m, live)
  <2>1. disk' = disk
    BY <1>R, <1>2 DEF Receive, TakeCommand, TakeKey, TakePermutation, TakeRequest, TakeEviction,
       TakeUnusable, memory
  <2> QED
    BY <2>1
<1> QED
  BY <1>1, <1>2

\* The message a server without a late message handles is the client's.
LEMMA HandleLive ==
    ASSUME TypeOK, ClientInv, NEW s \in Server, Handle(s), stray[s] = NoMsg
    PROVE  /\ pc \in DOMAIN Kind /\ thread[s] \in {"command", "payload"}
           /\ \E m \in Msg : /\ m = Message(s) /\ m.kind = Kind[pc] /\ m.part = thread[s]
                             /\ m.pos = sent /\ m.id = drawn /\ m.mem = mem
                             /\ Receive(s, m, TRUE)
<1>1. thread[s] \in {"command", "payload"} /\ Receive(s, Message(s), TRUE)
  BY DEF Handle
<1>2. pc \in DOMAIN Kind
  BY <1>1 DEF ClientInv, NoServer
<1>3. Message(s) \in Msg
  BY <1>1, <1>2 DEF TypeOK, Message, Msg
<1>4. /\ Message(s).kind = Kind[pc] /\ Message(s).part = thread[s] /\ Message(s).pos = sent
      /\ Message(s).id = drawn /\ Message(s).mem = mem
  BY DEF Message
<1> QED
  BY <1>1, <1>2, <1>3, <1>4

\* No payload but an eviction is ever taken for one, and no eviction for another
\* payload: the eviction of a client is only done when a server says so.
LEMMA HandleEvict ==
    ASSUME TypeOK, ClientInv, NEW s \in Server, Handle(s), pc = "evict", thread'[s] = "done"
    PROVE  thread[s] = "done"
<1>0. thread \in [Server -> {"off", "command", "payload", "wait", "done", "garbled", "lost"}]
  BY DEF TypeOK
<1>R. PICK m \in Msg, live \in BOOLEAN : Heard(s, m, live) /\ Receive(s, m, live)
  BY HandleMeans
<1>1. CASE ~live
  <2>1. \/ \E u \in BOOLEAN : Answer(s, live, u)
        \/ TakeEviction(s, m, live) \/ TakeUnusable(s, m, live)
    BY <1>R DEF Receive, TakeCommand, TakeFile, TakeKey, TakePermutation, TakeRequest, Understood
  <2> QED
    BY <1>0, <1>1, <2>1 DEF Answer, TakeEviction, TakeUnusable, Restarted
<1>2. CASE live
  <2>1. m = Message(s) /\ thread[s] \in {"command", "payload"}
    BY <1>R, <1>2 DEF Heard
  <2>2. m.kind = "evict"
    BY <2>1, KindFacts DEF Message
  <2>3. CASE TakeEviction(s, m, live)
    BY <1>0, <1>2, <2>1, <2>3 DEF TakeEviction
  <2>11. CASE TakeUnusable(s, m, live)
    BY <1>0, <1>2, <2>1, <2>11 DEF TakeUnusable, Restarted
  <2>4. \A u \in BOOLEAN : Answer(s, live, u) /\ ~u => thread'[s] \in {"payload", "garbled"}
    BY <1>0, <1>2 DEF Answer, NextRequest
  <2>5. phase[s] # "evict" => ~Understood(s, m)
    BY <2>2 DEF Understood
  <2>6. CASE TakeCommand(s, m, live)
    BY <2>4, <2>6 DEF TakeCommand
  <2>7. CASE TakeFile(s, m, live)
    BY <2>4, <2>5, <2>7 DEF TakeFile
  <2>8. CASE TakeKey(s, m, live)
    BY <2>4, <2>5, <2>8 DEF TakeKey
  <2>9. CASE TakePermutation(s, m, live)
    <3>1. PICK u \in BOOLEAN : u = Understood(s, m)
      BY DEF Understood
    <3>2. Answer(s, live, u) /\ ~u
      BY <2>5, <2>9, <3>1 DEF TakePermutation
    <3> QED
      BY <2>4, <3>2
  <2>10. CASE TakeRequest(s, m, live)
    <3>1. PICK u \in BOOLEAN : u = Understood(s, m)
      BY DEF Understood
    <3>2. Answer(s, live, u) /\ ~u
      BY <2>5, <2>10, <3>1 DEF TakeRequest
    <3> QED
      BY <2>4, <3>2
  <2> QED
    BY <1>R, <2>3, <2>6, <2>7, <2>8, <2>9, <2>10, <2>11 DEF Receive
<1> QED
  BY <1>1, <1>2

\* The step a server that is not misled takes with a message of the client.
LEMMA HandleInStep ==
    ASSUME TypeOK, ClientInv, NEW u \in Server, Handle(u), InStep(u)
    PROVE  InStep(u)'
<1>0. /\ thread \in [Server -> {"off", "command", "payload", "wait", "done", "garbled", "lost"}]
      /\ phase \in [Server -> Phases] /\ stray \in [Server -> Msg \cup {NoMsg}]
      /\ stray[u] = NoMsg
  BY DEF TypeOK, InStep
<1>1. /\ pc' = pc /\ pc \in DOMAIN Kind /\ thread[u] \in {"command", "payload"}
      /\ stray'[u] = NoMsg /\ phase'[u] \notin {"exchange", "write"}
      /\ thread'[Other(u)] = thread[Other(u)]
  <2>1. pc \in DOMAIN Kind /\ thread[u] \in {"command", "payload"}
    BY <1>0, HandleLive
  <2>2. pc' = pc /\ stray'[u] = NoMsg /\ phase'[u] \notin {"exchange", "write"}
    BY <1>0, HandleFacts
  <2>3. \A r \in Server \ {u} : thread'[r] = thread[r]
    BY HandleFacts
  <2> QED
    BY <2>1, <2>2, <2>3, OtherFacts
<1>2. PICK m \in Msg : m.kind = Kind[pc] /\ m.part = thread[u] /\ Receive(u, m, TRUE)
  BY <1>0, HandleLive
<1>3. CASE pc = "request"
  <2>1. m.kind = "request"
    BY <1>2, <1>3, KindFacts
  <2>2. thread'[u] = "done" => phase'[u] = "command"
    <3>1. CASE TakeCommand(u, m, TRUE)
      BY <1>0, <1>3, <3>1 DEF TakeCommand, Answer, NextRequest
    <3>2. CASE TakeFile(u, m, TRUE)
      <4>1. Answer(u, TRUE, FALSE)
        BY <2>1, <3>2 DEF TakeFile, Understood
      <4> QED
        BY <1>0, <4>1 DEF Answer, NextRequest
    <3>3. CASE TakeKey(u, m, TRUE)
      BY <1>0, <3>3 DEF TakeKey
    <3>4. CASE TakePermutation(u, m, TRUE)
      BY <1>0, <3>4 DEF TakePermutation
    <3>5. CASE TakeRequest(u, m, TRUE)
      BY <1>0, <3>5 DEF TakeRequest
    <3>6. CASE TakeEviction(u, m, TRUE)
      BY <1>0, <3>6 DEF TakeEviction
    <3>7. CASE TakeUnusable(u, m, TRUE)
      BY <1>0, <3>7 DEF TakeUnusable, Restarted
    <3> QED
      BY <1>2, <3>1, <3>2, <3>3, <3>4, <3>5, <3>6, <3>7 DEF Receive
  <2> QED
    BY <1>1, <1>3, <2>2 DEF InStep
<1>4. CASE pc = "init"
  <2>1. m.kind = "init"
    BY <1>2, <1>4, KindFacts
  <2>2. phase[u] = "command" \/ phase[u] = "init"
    BY <1>1, <1>4 DEF InStep
  <2>3. CASE TakeCommand(u, m, TRUE)
    BY <1>0, <1>1, <1>2, <1>4, <2>1, <2>3 DEF TakeCommand, Answer, NextRequest, InStep
  <2>4. CASE TakePermutation(u, m, TRUE)
    <3>1. phase'[u] = "command"
      BY <1>0, <2>4 DEF TakePermutation
    <3> QED
      BY <1>1, <1>4, <3>1 DEF InStep
  <2>5. CASE TakeFile(u, m, TRUE) \/ TakeKey(u, m, TRUE) \/ TakeRequest(u, m, TRUE)
             \/ TakeEviction(u, m, TRUE) \/ TakeUnusable(u, m, TRUE)
    BY <2>2, <2>5 DEF TakeFile, TakeKey, TakeRequest, TakeEviction, TakeUnusable
  <2> QED
    BY <1>2, <2>3, <2>4, <2>5 DEF Receive
<1>5. CASE pc = "evict"
  <2>1. m.kind = "evict"
    BY <1>2, <1>5, KindFacts
  <2>2. phase[u] = IF thread[u] = "command" THEN "command" ELSE "evict"
    BY <1>1, <1>5 DEF InStep
  <2>3. CASE TakeCommand(u, m, TRUE)
    BY <1>0, <1>1, <1>2, <1>5, <2>1, <2>2, <2>3 DEF TakeCommand, Answer, NextRequest, InStep
  <2>4. CASE TakeEviction(u, m, TRUE)
    BY <1>0, <1>1, <1>2, <1>5, <2>1, <2>2, <2>4 DEF TakeEviction, InStep
  <2>5. CASE TakeFile(u, m, TRUE) \/ TakeKey(u, m, TRUE) \/ TakeRequest(u, m, TRUE)
             \/ TakePermutation(u, m, TRUE)
    BY <2>2, <2>5 DEF TakeFile, TakeKey, TakeRequest, TakePermutation
  <2>6. CASE TakeUnusable(u, m, TRUE)
    BY <1>1, <1>2, <2>1, <2>2, <2>6 DEF TakeUnusable, Understood
  <2> QED
    BY <1>2, <2>3, <2>4, <2>5, <2>6 DEF Receive
<1>6. CASE pc \notin {"request", "init", "evict"}
  BY <1>1, <1>6 DEF InStep
<1> QED
  BY <1>3, <1>4, <1>5, <1>6

\* A server that is not misled is where the client believes it is.
LEMMA NextInStep ==
    ASSUME TypeOK, ClientInv, JobInv, [Next]_vars, "eviction" \notin fatal',
           NEW u \in Server, u \notin misled', InStep(u)
    PROVE  InStep(u)'
<1> DEFINE v == Other(u)
<1>0. /\ thread \in [Server -> {"off", "command", "payload", "wait", "done", "garbled", "lost"}]
      /\ phase \in [Server -> Phases] /\ stray \in [Server -> Msg \cup {NoMsg}]
      /\ v \in Server /\ v # u /\ \A s \in Server : s = u \/ s = v
  BY OtherFacts DEF TypeOK
<1>1. /\ u \notin misled /\ "eviction" \notin fatal
  BY FaultsGrow
<1>2. /\ stray[u] = NoMsg
      /\ pc = "request" /\ thread[u] = "done" => phase[u] = "command"
      /\ pc = "init" => \/ phase[u] = "command" \/ thread[u] = "lost"
                        \/ phase[u] = "init" /\ thread[u] = "payload"
      /\ pc = "evict" =>
            /\ thread[u] # "garbled"
            /\ thread[u] = "command" => phase[u] = "command"
            /\ thread[u] = "payload" => phase[u] = "evict"
            /\ thread[u] = "done" \/ phase[u] \in {"exchange", "write"} =>
                  thread[v] \in {"wait", "done", "lost"}
  BY DEF InStep
<1>3. pc = "evict" => \A s \in Server : Busy(s) => thread[s] = "wait"
  BY <1>1 DEF JobInv
<1> SUFFICES /\ stray'[u] = NoMsg
             /\ pc' = "request" /\ thread'[u] = "done" => phase'[u] = "command"
             /\ pc' = "init" => \/ phase'[u] = "command" \/ thread'[u] = "lost"
                                \/ phase'[u] = "init" /\ thread'[u] = "payload"
             /\ pc' = "evict" =>
                   /\ thread'[u] # "garbled"
                   /\ thread'[u] = "command" => phase'[u] = "command"
                   /\ thread'[u] = "payload" => phase'[u] = "evict"
                   /\ thread'[u] = "done" \/ phase'[u] \in {"exchange", "write"} =>
                         thread'[v] \in {"wait", "done", "lost"}
  BY DEF InStep
<1>4. CASE Create \/ Load \/ Request \/ Leave
  BY <1>0, <1>2, <1>4 DEF Create, Load, Request, Leave, BothServers
<1>5. CASE Crash
  <2>1. stray'[u] = stray[u]
    BY <1>5 DEF Crash
  <2> QED
    BY <1>2, <1>5, <2>1 DEF Crash
<1>6. CASE Client
  <2>1. UNCHANGED <<phase, stray>>
    BY <1>6 DEF Client, Created, NextServer, Ready, RequestDone, RequestFails, InitDone,
       EvictDone, Save, loop
  <2>2. CASE Created \/ Ready \/ RequestFails \/ EvictDone \/ Save
    BY <1>2, <2>1, <2>2 DEF Created, Ready, RequestFails, EvictDone, Save
  <2>3. CASE NextServer
    BY <1>0, <1>2, <2>1, <2>3 DEF NextServer, Server
  <2>4. CASE RequestDone
    <3>1. thread[u] = "done" /\ pc = "request" /\ pc' = "init"
      BY <2>4 DEF RequestDone, AllAnswered, Answered
    <3> QED
      BY <1>2, <2>1, <3>1
  <2>5. CASE InitDone
    <3>1. /\ thread[u] \in {"done", "garbled"} /\ pc = "init" /\ pc' = "evict"
          /\ thread'[u] = "command"
      BY <2>5 DEF InitDone, AllAnswered, Answered, BothServers
    <3> QED
      BY <1>2, <2>1, <3>1
  <2> QED
    BY <1>6, <2>2, <2>3, <2>4, <2>5 DEF Client
<1>7. ASSUME Handle(u) PROVE InStep(u)'
  BY <1>7, HandleInStep
<1>8. ASSUME Handle(v) PROVE InStep(u)'
  <2>1. /\ pc' = pc /\ phase'[u] = phase[u] /\ thread'[u] = thread[u] /\ stray'[u] = stray[u]
        /\ thread[v] \in {"wait", "done", "lost"} => thread'[v] = thread[v]
    BY <1>0, <1>8, HandleFacts
  <2> QED
    BY <1>2, <2>1 DEF InStep
<1>9. CASE Meet
  <2>1. UNCHANGED <<pc, thread, stray>> /\ phase[u] = "share" /\ phase[v] = "share"
        /\ phase'[u] = "exchange"
    BY <1>0, <1>9 DEF Meet, local
  <2>2. pc = "evict" => thread[u] = "wait" /\ thread[v] = "wait"
    BY <1>0, <1>3, <2>1 DEF Busy
  <2> QED
    BY <1>2, <2>1, <2>2
<1>10. ASSUME Evicting(u) PROVE InStep(u)'
  <2>1. /\ pc' = pc /\ stray' = stray /\ phase[u] \in {"exchange", "write"}
        /\ phase'[u] # "command" => thread'[u] = thread[u]
        /\ phase'[u] = "command" =>
              thread'[u] = IF thread[u] = "wait" THEN "done" ELSE thread[u]
        /\ thread'[v] = thread[v]
    BY <1>0, <1>10, EvictingFacts
  <2>2. pc = "evict" => thread[u] = "wait" /\ thread[v] \in {"wait", "done", "lost"}
    BY <1>2, <1>3, <2>1 DEF Busy
  <2>3. phase[u] \notin {"command", "init"}
    BY <2>1
  <2> QED
    BY <1>2, <2>1, <2>2, <2>3 DEF InStep
<1>11. ASSUME Evicting(v) PROVE InStep(u)'
  <2>1. /\ pc' = pc /\ stray' = stray /\ phase'[u] = phase[u] /\ thread'[u] = thread[u]
        /\ thread'[v] \in {thread[v], "done"}
        /\ thread'[v] # thread[v] => thread[v] = "wait"
    BY <1>0, <1>11, EvictingFacts
  <2> QED
    BY <1>2, <2>1 DEF InStep
<1>12. ASSUME Restart(u) PROVE InStep(u)'
  <2>1. /\ pc' = pc /\ stray'[u] = NoMsg /\ phase'[u] = "command"
        /\ thread'[u] \in {thread[u], "lost"} /\ thread'[v] = thread[v]
        /\ ~(pc = "evict" /\ phase[u] = "evict")
    BY <1>0, <1>12, RestartFacts
  <2> QED
    BY <1>2, <2>1 DEF InStep
<1>13. ASSUME Restart(v) PROVE InStep(u)'
  <2>1. /\ pc' = pc /\ stray'[u] = stray[u] /\ phase'[u] = phase[u] /\ thread'[u] = thread[u]
        /\ thread'[v] \in {thread[v], "lost"}
    BY <1>0, <1>13, RestartFacts
  <2> QED
    BY <1>2, <2>1 DEF InStep
<1>14. CASE UNCHANGED vars
  BY <1>2, <1>14 DEF vars, local, loop
<1> HIDE DEF v
<1>15. ASSUME InStep(u)'
       PROVE  /\ stray'[u] = NoMsg
              /\ pc' = "request" /\ thread'[u] = "done" => phase'[u] = "command"
              /\ pc' = "init" => \/ phase'[u] = "command" \/ thread'[u] = "lost"
                                 \/ phase'[u] = "init" /\ thread'[u] = "payload"
              /\ pc' = "evict" =>
                    /\ thread'[u] # "garbled"
                    /\ thread'[u] = "command" => phase'[u] = "command"
                    /\ thread'[u] = "payload" => phase'[u] = "evict"
                    /\ thread'[u] = "done" \/ phase'[u] \in {"exchange", "write"} =>
                          thread'[v] \in {"wait", "done", "lost"}
  BY <1>15 DEF InStep, v
<1>16. ASSUME NEW s \in Server, Handle(s) \/ Evicting(s) \/ Restart(s) PROVE InStep(u)'
  BY <1>0, <1>7, <1>8, <1>10, <1>11, <1>12, <1>13, <1>16
<1> QED
  BY <1>4, <1>5, <1>6, <1>9, <1>14, <1>15, <1>16 DEF Next, User

\* The client's file is not ahead of the disks.
LEMMA NextFileInv ==
    ASSUME TypeOK, ClientInv, ServerInv, StrayInv, JobInv, FileInv, [Next]_vars
    PROVE  FileInv'
<1> DEFINE Done(s) == \A f \in Targets(getEvictLeafID(mem.numEvict)) : AtLeast(s, f, drawn)
<1> SUFFICES ASSUME "eviction" \notin fatal', misled' # Server
             PROVE  /\ NotAhead(saved)'
                    /\ pc' = "save" => NotAhead(mem)'
                    /\ pc' = "evict" => \A s \in Server : thread'[s] = "done" => Done(s)'
                    /\ \A u \in Server \ misled' : InStep(u)'
  BY DEF FileInv, Server
<1>0. /\ "eviction" \notin fatal /\ misled # Server /\ misled \subseteq Server
      /\ misled \subseteq misled'
  <2>1. misled' \subseteq Server
    BY NextTypeOK DEF TypeOK, Server
  <2> QED
    BY <2>1, FaultsGrow
<1>1. /\ NotAhead(saved)
      /\ pc = "save" => NotAhead(mem)
      /\ pc = "evict" => \A s \in Server : thread[s] = "done" => Done(s)
      /\ \A u \in Server \ misled : InStep(u)
  BY <1>0 DEF FileInv
<1> HIDE DEF Done
<1>2. \A u \in Server \ misled' : InStep(u)'
  BY <1>0, <1>1, NextInStep
<1>3. /\ saved.tree \in [File -> Nat] /\ mem.tree \in [File -> Nat] /\ drawn \in Nat
      /\ thread \in [Server -> {"off", "command", "payload", "wait", "done", "garbled", "lost"}]
      /\ getEvictLeafID(mem.numEvict) \in Leaf /\ JobLeaf([id |-> drawn, mem |-> mem]) \in Leaf
      /\ \A f \in Targets(getEvictLeafID(mem.numEvict)) : f \in File
  <2>1. saved \in Data /\ mem \in Data /\ drawn \in Version
    BY DEF TypeOK
  <2>2. mem.numEvict \in 0 .. N_leaf - 1 /\ saved.tree \in [File -> Version]
        /\ mem.tree \in [File -> Version] /\ Version \subseteq Nat
    BY <2>1, DataFacts
  <2>3. getEvictLeafID(mem.numEvict) \in Leaf
    BY <2>2, JobLeafFacts
  <2> QED
    BY <2>1, <2>2, <2>3 DEF TypeOK, JobLeaf, Targets
<1>4. ASSUME UNCHANGED <<pc, mem, drawn, saved>>,
             \A s \in Server, f \in File : disk'[s][f] \in {0, disk[s][f]},
             \A s \in Server : thread'[s] = "done" => thread[s] = "done" \/ pc # "evict"
      PROVE  /\ NotAhead(saved)'
             /\ pc' = "save" => NotAhead(mem)'
             /\ pc' = "evict" => \A s \in Server : thread'[s] = "done" => Done(s)'
  <2>1. \A s \in Server, f \in File :
            \A k \in Nat : AtLeast(s, f, k) => disk'[s][f] = 0 \/ disk'[s][f] >= k
    BY <1>4 DEF AtLeast
  <2>2. NotAhead(saved)'
    BY <1>1, <1>3, <1>4, <2>1 DEF NotAhead, AtLeast
  <2>3. pc' = "save" => NotAhead(mem)'
    BY <1>1, <1>3, <1>4, <2>1 DEF NotAhead, AtLeast
  <2>4. ASSUME pc' = "evict", NEW s \in Server, thread'[s] = "done" PROVE Done(s)'
    <3>1. Done(s)
      BY <1>1, <1>4, <2>4
    <3> QED
      BY <1>3, <1>4, <2>1, <3>1 DEF Done, AtLeast
  <2> QED
    BY <2>2, <2>3, <2>4
<1>5. CASE Create \/ Load \/ Request \/ Leave
  <2>1. /\ UNCHANGED <<disk, saved>> /\ pc' \notin {"save", "evict"}
    BY <1>5 DEF Create, Load, Request, Leave, memory
  <2> QED
    BY <1>1, <1>2, <2>1 DEF NotAhead, AtLeast
<1>6. CASE Crash
  <2>1. disk' = disk /\ pc' = "down" /\ saved' \in {saved, NoData}
    BY <1>6 DEF Crash
  <2>2. \A f \in File : NoData.tree[f] = NoData.key
    BY DEF NoData, AllFiles
  <2> QED
    BY <1>1, <1>2, <2>1, <2>2 DEF NotAhead, AtLeast
<1>7. CASE Client
  <2>0. disk' = disk
    BY <1>7 DEF Client, Created, NextServer, Ready, RequestDone, RequestFails, InitDone,
       EvictDone, Save
  <2>1. CASE Created
    <3>1. \A f \in File : saved'.tree[f] = saved'.key
      BY <2>1 DEF Created, ClientInv, Unevicted, AllFiles
    <3> QED
      BY <1>2, <2>1, <3>1 DEF Created, NotAhead
  <2>2. CASE NextServer \/ Ready \/ RequestDone \/ RequestFails
    <3>1. saved' = saved /\ pc' \notin {"save", "evict"}
      BY <2>2 DEF NextServer, Ready, RequestDone, RequestFails
    <3> QED
      BY <1>1, <1>2, <2>0, <3>1 DEF NotAhead, AtLeast
  <2>3. CASE InitDone
    <3>1. saved' = saved /\ pc' = "evict" /\ \A s \in Server : thread'[s] = "command"
      BY <2>3 DEF InitDone, BothServers
    <3> QED
      BY <1>1, <1>2, <2>0, <3>1 DEF NotAhead, AtLeast
  <2>4. CASE EvictDone
    <3>1. pc = "evict" /\ \A s \in Server : thread[s] \in {"done", "garbled"}
      BY <2>4 DEF EvictDone, AllAnswered, Answered
    <3>2. \A s \in Server : thread[s] = "done"
      <4>1. PICK u \in Server : u \notin misled
        BY <1>0
      <4>2. InStep(u)
        BY <1>1, <4>1
      <4>3. thread[u] # "garbled" /\ (thread[u] = "done" => thread[Other(u)] \in {"wait", "done", "lost"})
        BY <3>1, <4>2 DEF InStep
      <4>4. thread[u] = "done" /\ thread[Other(u)] = "done"
        BY <3>1, <4>3, OtherFacts
      <4> QED
        BY <4>4, OtherFacts
    <3>3. /\ saved' = saved /\ saved = mem /\ pc' = "save" /\ mem'.key = mem.key
          /\ mem'.tree = [f \in File |-> IF f \in Targets(getEvictLeafID(mem.numEvict))
                                         THEN drawn ELSE mem.tree[f]]
      BY <2>4, KindFacts DEF EvictDone, ClientInv, TypeOK, Data
    <3>4. ASSUME NEW f \in File, mem'.tree[f] # mem'.key, NEW s \in Server
          PROVE  AtLeast(s, f, mem'.tree[f])
      <4>1. CASE f \in Targets(getEvictLeafID(mem.numEvict))
        BY <1>1, <3>1, <3>2, <3>3, <4>1 DEF Done
      <4>2. CASE f \notin Targets(getEvictLeafID(mem.numEvict))
        BY <1>1, <3>3, <3>4, <4>2 DEF NotAhead
      <4> QED
        BY <4>1, <4>2
    <3> QED
      BY <1>1, <1>2, <2>0, <3>3, <3>4 DEF NotAhead, AtLeast
  <2>5. CASE Save
    <3>1. saved' = mem /\ pc = "save" /\ pc' = "menu"
      BY <2>5 DEF Save
    <3> QED
      BY <1>1, <1>2, <2>0, <3>1 DEF NotAhead, AtLeast
  <2> QED
    BY <1>7, <2>1, <2>2, <2>3, <2>4, <2>5 DEF Client
<1>8. ASSUME NEW s \in Server, Handle(s)
      PROVE  /\ NotAhead(saved)'
             /\ pc' = "save" => NotAhead(mem)'
             /\ pc' = "evict" => \A r \in Server : thread'[r] = "done" => Done(r)'
  <2>1. UNCHANGED <<pc, mem, drawn, saved>>
    BY <1>8, HandleFacts
  <2>2. \A r \in Server : thread'[r] = "done" => thread[r] = "done" \/ pc # "evict"
    <3>1. \A r \in Server \ {s} : thread'[r] = thread[r]
      BY <1>8, HandleFacts
    <3>2. pc = "evict" /\ thread'[s] = "done" => thread[s] = "done"
      BY <1>8, HandleEvict
    <3> QED
      BY <3>1, <3>2
  <2>3. CASE \A r \in Server, f \in File : disk'[r][f] \in {0, disk[r][f]}
    BY <1>4, <2>1, <2>2, <2>3
  <2>4. CASE Unevicted(saved) /\ pc \notin {"init", "evict", "save"}
    <3>1. \A f \in File : saved'.tree[f] = saved'.key
      BY <2>1, <2>4 DEF Unevicted, AllFiles
    <3> QED
      BY <2>1, <2>4, <3>1 DEF NotAhead
  <2> QED
    BY <1>8, <2>3, <2>4, HandleDisk
<1>9. ASSUME UNCHANGED <<pc, mem, drawn, saved, thread, disk>>
      PROVE  /\ NotAhead(saved)'
             /\ pc' = "save" => NotAhead(mem)'
             /\ pc' = "evict" => \A s \in Server : thread'[s] = "done" => Done(s)'
  BY <1>1, <1>9 DEF NotAhead, AtLeast, Done
<1>10. CASE Meet \/ UNCHANGED vars
  BY <1>2, <1>9, <1>10 DEF Meet, vars, local
<1>11. ASSUME NEW s \in Server, Exchange(s) \/ BeginWrite(s)
       PROVE  UNCHANGED <<pc, mem, drawn, saved, thread, disk>>
  BY <1>11 DEF Exchange, BeginWrite, local
<1>12. ASSUME NEW s \in Server, Busy(s)
       PROVE  /\ pc # "save"
              /\ pc = "evict" => thread[s] = "wait" /\ job[s] = [id |-> drawn, mem |-> mem]
              /\ \A f \in File : saved.tree[f] = saved.key \/ saved.tree[f] <= job[s].id
  BY <1>0, <1>12 DEF JobInv
<1>13. ASSUME NEW s \in Server, WriteFile(s)
       PROVE  /\ NotAhead(saved)'
              /\ pc' = "save" => NotAhead(mem)'
              /\ pc' = "evict" => \A r \in Server : thread'[r] = "done" => Done(r)'
  <2> DEFINE w == WriteOrder(JobLeaf(job[s]))[cursor[s]]
  <2>1. UNCHANGED <<pc, mem, drawn, saved, thread>> /\ phase[s] = "write" /\ Busy(s)
    BY <1>13 DEF WriteFile, local, Busy
  <2>2. /\ \A f \in File : disk'[s][f] = IF f = w THEN work[s] ELSE disk[s][f]
        /\ \A r \in Server : r # s => disk'[r] = disk[r]
    BY <1>13, WriteFileFacts
  <2> HIDE DEF w
  <2> DEFINE id == job[s].id
  <2>3. work[s] \in {0, id} /\ id \in Nat
    BY <2>1, DataFacts DEF ServerInv, TypeOK
  <2>4. \A f \in File : saved.tree[f] = saved.key \/ saved.tree[f] <= id
    BY <1>12, <2>1
  <2> HIDE DEF id
  <2>5. ASSUME NEW f \in File, saved.tree[f] # saved.key, NEW r \in Server
        PROVE  disk'[r][f] = 0 \/ disk'[r][f] >= saved.tree[f]
    <3>1. AtLeast(r, f, saved.tree[f])
      BY <1>1, <2>5 DEF NotAhead
    <3>2. CASE r = s /\ f = w
      BY <1>3, <2>2, <2>3, <2>4, <2>5, <3>2
    <3>3. CASE ~(r = s /\ f = w)
      BY <2>2, <2>5, <3>1, <3>3 DEF AtLeast
    <3> QED
      BY <3>2, <3>3
  <2>6. NotAhead(saved)'
    BY <2>1, <2>5 DEF NotAhead, AtLeast
  <2>7. ASSUME pc' = "evict", NEW r \in Server, thread'[r] = "done" PROVE Done(r)'
    <3>1. thread[r] = "done" /\ pc = "evict" /\ r # s
      BY <1>12, <2>1, <2>7
    <3> QED
      BY <1>1, <2>1, <2>2, <3>1 DEF Done, AtLeast
  <2> QED
    BY <1>12, <2>1, <2>6, <2>7
<1>14. ASSUME NEW s \in Server, Ack(s)
       PROVE  /\ NotAhead(saved)'
              /\ pc' = "save" => NotAhead(mem)'
              /\ pc' = "evict" => \A r \in Server : thread'[r] = "done" => Done(r)'
  <2>1. /\ UNCHANGED <<pc, mem, drawn, saved, disk>> /\ phase[s] = "write" /\ Busy(s)
        /\ cursor[s] = LastFile
        /\ \A r \in Server \ {s} : thread'[r] = thread[r]
    BY <1>3, <1>14 DEF Ack, local, Busy
  <2>2. NotAhead(saved)'
    BY <1>1, <2>1 DEF NotAhead, AtLeast
  <2>3. ASSUME pc' = "evict", NEW r \in Server, thread'[r] = "done" PROVE Done(r)'
    <3>1. Done(r)
      <4>1. CASE r # s
        BY <1>1, <2>1, <2>3, <4>1
      <4>2. CASE r = s
        <5>1. job[s] = [id |-> drawn, mem |-> mem]
          BY <1>12, <2>1, <2>3
        <5> DEFINE leaf == getEvictLeafID(mem.numEvict)
        <5>2. JobLeaf(job[s]) = leaf /\ job[s].id = drawn
          BY <5>1 DEF JobLeaf
        <5>3. \A i \in 0 .. LastFile - 1 : AtLeast(s, WriteOrder(leaf)[i], drawn)
          BY <2>1, <5>2 DEF ServerInv
        <5>4. leaf \in Leaf
          BY <1>3
        <5> HIDE DEF leaf
        <5>5. Targets(leaf) = {WriteOrder(leaf)[i] : i \in 0 .. LastFile - 1}
          BY <5>4, WriteOrderFacts
        <5>6. \A f \in Targets(leaf) : AtLeast(s, f, drawn)
          BY <5>3, <5>5
        <5> QED
          BY <4>2, <5>6 DEF Done, leaf
      <4> QED
        BY <4>1, <4>2
    <3> QED
      BY <2>1, <3>1 DEF Done, AtLeast
  <2> QED
    BY <1>12, <2>1, <2>2, <2>3
<1>15. ASSUME NEW s \in Server, Restart(s)
       PROVE  /\ NotAhead(saved)'
              /\ pc' = "save" => NotAhead(mem)'
              /\ pc' = "evict" => \A r \in Server : thread'[r] = "done" => Done(r)'
  <2>1. UNCHANGED <<pc, mem, drawn, saved>>
    BY <1>15, RestartFacts
  <2>2. \A r \in Server : thread'[r] = "done" => thread[r] = "done"
    BY <1>15, RestartFacts
  <2>3. \A r \in Server, f \in File : disk'[r][f] \in {0, disk[r][f]}
    BY <1>15, RestartDisk
  <2> QED
    BY <1>4, <2>1, <2>2, <2>3
<1> QED
  BY <1>2, <1>5, <1>6, <1>7, <1>8, <1>9, <1>10, <1>11, <1>13, <1>14, <1>15
     DEF Next, User, Evicting

\* A step of another server, that says nothing to this one.
LEMMA CalmStay ==
    ASSUME NEW r \in Server, CalmServer(r), UNCHANGED <<pc, mem, drawn>>,
           phase'[r] = phase[r], cursor'[r] = cursor[r], disk'[r] = disk[r],
           key'[r] = key[r], perm'[r] = perm[r], work'[r] = work[r], stray'[r] = stray[r],
           thread'[r] = thread[r],
           sent' = sent \/ pc \notin {"transfer", "load"} \/ thread[r] \notin {"command", "payload"}
    PROVE  CalmServer(r)'
  BY DEF CalmServer, Fits, Keyed, Written

\* A server in step with the client hears it, and still is.
LEMMA CalmHandle ==
    ASSUME TypeOK, ClientInv, ServerInv, NEW s \in Server, Handle(s), CalmServer(s),
           pc = "load" => Fits(s, mem)
    PROVE  /\ CalmServer(s)'
           /\ sent' # sent => pc = "transfer" /\ thread[s] = "payload"
           /\ thread[s] \in {"command", "payload"} /\ (pc = "evict" => thread'[s] # "done")
           /\ phase'[s] = "share" => pc = "evict"
<1> USE KindFacts
<1>0. /\ thread \in [Server -> {"off", "command", "payload", "wait", "done", "garbled", "lost"}]
      /\ phase \in [Server -> Phases] /\ cursor \in [Server -> 0 .. KeyPos]
      /\ disk \in [Server -> [File -> Version]] /\ key \in [Server -> Version]
      /\ perm \in [Server -> Version] /\ sent \in 0 .. KeyPos
      /\ stray \in [Server -> Msg \cup {NoMsg}] /\ stray[s] = NoMsg
      /\ KeyPos \in Nat
  BY Sizes DEF TypeOK, CalmServer
<1>1. /\ UNCHANGED <<pc, mem, drawn>> /\ stray'[s] = NoMsg /\ ~Busy(s)
  BY <1>0, HandleFacts
<1>2. pc \in DOMAIN Kind /\ thread[s] \in {"command", "payload"}
  BY <1>0, HandleLive
<1>3. PICK m \in Msg : /\ m.kind = Kind[pc] /\ m.part = thread[s] /\ m.pos = sent /\ m.id = drawn
                       /\ m.mem = mem /\ Receive(s, m, TRUE)
  BY <1>0, HandleLive
<1>4. CASE TakeCommand(s, m, TRUE)
  <2>1. phase[s] = "command" /\ cursor[s] = 0
    BY <1>4 DEF TakeCommand, ServerInv
  <2>2. thread[s] = "command" /\ (pc \in {"transfer", "load"} => sent = 0)
    BY <1>2, <2>1 DEF CalmServer
  <2>3. /\ phase'[s] = Kind[pc] /\ thread'[s] = "payload" /\ sent' = sent
        /\ cursor' = cursor /\ disk' = disk /\ key' = key /\ perm' = perm
    BY <1>0, <1>3, <1>4, <2>2 DEF TakeCommand, Answer, NextRequest, memory
  <2>4. \A f \in 0 .. 0 - 1 : disk'[s][f] = mem.key
    OBVIOUS
  <2>5. CalmServer(s)'
    <3>1. CASE pc \in {"transfer", "load"}
      BY <1>1, <1>2, <2>1, <2>2, <2>3, <2>4, <3>1 DEF CalmServer
    <3>2. CASE pc \in {"request", "init", "evict"}
      BY <1>1, <1>2, <2>1, <2>2, <2>3, <3>2 DEF CalmServer, Keyed, Fits
    <3> QED
      BY <1>2, <3>1, <3>2
  <2> QED
    BY <1>2, <2>3, <2>5
<1>5. CASE TakeFile(s, m, TRUE)
  <2>1. phase[s] = "tree" /\ cursor[s] < KeyPos
    BY <1>5 DEF TakeFile
  <2>2. /\ pc = "transfer" /\ thread[s] = "payload" /\ cursor[s] = sent
        /\ \A f \in 0 .. sent - 1 : disk[s][f] = mem.key
    BY <1>2, <2>1 DEF CalmServer, Leftover
  <2>3. Understood(s, m) /\ m.pos = cursor[s] /\ m.mem.key = mem.key
    BY <1>3, <2>1, <2>2 DEF Understood
  <2>4. /\ disk' = [disk EXCEPT ![s][cursor[s]] = mem.key]
        /\ phase' = phase /\ cursor' = [cursor EXCEPT ![s] = @ + 1]
    BY <1>5, <2>3 DEF TakeFile
  <2>5. thread'[s] = "payload" /\ sent' = sent + 1
    <3>1. \E u \in BOOLEAN : Answer(s, TRUE, u)
      BY <1>5 DEF TakeFile, Understood
    <3> QED
      BY <1>0, <2>1, <2>2, <3>1 DEF Answer, NextRequest
  <2>6. \A f \in 0 .. sent' - 1 : disk'[s][f] = mem.key
    <3>1. sent \in File /\ \A f \in 0 .. sent' - 1 : f \in File /\ (f = sent \/ f \in 0 .. sent - 1)
      BY <1>0, <2>1, <2>2, <2>5, Sizes
    <3> QED
      BY <1>0, <2>2, <2>4, <3>1
  <2> QED
    BY <1>0, <1>1, <2>1, <2>2, <2>4, <2>5, <2>6 DEF CalmServer
<1>6. CASE TakeKey(s, m, TRUE)
  <2>1. phase[s] = "key" \/ (phase[s] = "tree" /\ cursor[s] = KeyPos)
    BY <1>6 DEF TakeKey
  <2>2. /\ thread[s] = "payload"
        /\ \/ pc = "load" /\ phase[s] = "key"
           \/ /\ pc = "transfer" /\ phase[s] = "tree" /\ sent = KeyPos
              /\ \A f \in 0 .. sent - 1 : disk[s][f] = mem.key
    BY <1>2, <2>1 DEF CalmServer, Leftover
  <2>3. Understood(s, m) /\ (phase[s] = "tree" => m.pos = KeyPos) /\ m.mem.key = mem.key
    BY <1>3, <2>1, <2>2 DEF Understood
  <2>4. key' = [key EXCEPT ![s] = mem.key] /\ phase' = [phase EXCEPT ![s] = "command"]
        /\ disk' = disk
    BY <1>6, <2>3 DEF TakeKey
  <2>5. thread'[s] = "done" /\ sent' = sent
    <3>1. Answer(s, TRUE, TRUE)
      BY <1>6, <2>3 DEF TakeKey
    <3> QED
      BY <1>0, <2>2, <3>1 DEF Answer, NextRequest
  <2>6. Fits(s, mem)
    <3>1. CASE pc = "load"
      BY <3>1
    <3>2. CASE pc = "transfer"
      <4>1. \A f \in File : disk[s][f] = mem.key
        BY <2>2, <3>2, Sizes
      <4>2. mem.tree = [f \in File |-> mem.key]
        BY <3>2 DEF ClientInv, Unevicted, AllFiles
      <4>3. disk[s] \in [File -> Version]
        BY <1>0
      <4> QED
        BY <4>1, <4>2, <4>3 DEF Fits
    <3> QED
      BY <2>2, <3>1, <3>2
  <2> QED
    BY <1>0, <1>1, <2>2, <2>4, <2>5, <2>6 DEF CalmServer, Keyed, Fits
<1>7. CASE TakePermutation(s, m, TRUE)
  <2>1. phase[s] = "init"
    BY <1>7 DEF TakePermutation
  <2>2. pc = "init" /\ thread[s] = "payload" /\ Keyed(s) /\ Fits(s, mem)
    BY <1>2, <2>1 DEF CalmServer, Leftover
  <2>3. Understood(s, m)
    BY <1>3, <2>1, <2>2 DEF Understood
  <2>4. /\ perm' = [perm EXCEPT ![s] = drawn] /\ phase' = [phase EXCEPT ![s] = "command"]
        /\ disk' = disk /\ key' = key
    BY <1>3, <1>7, <2>3 DEF TakePermutation
  <2>5. thread'[s] = "done" /\ sent' = sent
    <3>1. Answer(s, TRUE, TRUE)
      BY <1>7, <2>3 DEF TakePermutation
    <3> QED
      BY <1>0, <2>2, <3>1 DEF Answer, NextRequest
  <2> QED
    BY <1>0, <1>1, <2>2, <2>4, <2>5 DEF CalmServer, Keyed, Fits
<1>8. CASE TakeRequest(s, m, TRUE)
  <2>1. phase[s] = "request" /\ m.part = "payload"
    BY <1>8 DEF TakeRequest, BeginsWithLeaf
  <2>2. pc = "request" /\ thread[s] = "payload" /\ Keyed(s) /\ Fits(s, mem)
    <3>1. thread[s] = "payload"
      BY <1>3, <2>1
    <3>2. pc = "request"
      BY <1>2, <2>1, <3>1 DEF CalmServer
    <3> QED
      BY <2>1, <3>1, <3>2 DEF CalmServer
  <2>5. Understood(s, m)
    BY <1>3, <2>1, <2>2 DEF Understood
  <2>3. phase' = [phase EXCEPT ![s] = "command"] /\ disk' = disk /\ key' = key
    BY <1>8 DEF TakeRequest, memory
  <2>4. thread'[s] = "done" /\ sent' = sent
    <3>1. Answer(s, TRUE, TRUE)
      BY <1>8, <2>5 DEF TakeRequest
    <3> QED
      BY <1>0, <2>2, <3>1 DEF Answer, NextRequest
  <2> QED
    BY <1>0, <1>1, <2>2, <2>3, <2>4 DEF CalmServer, Keyed, Fits
<1>9. CASE TakeEviction(s, m, TRUE)
  <2>1. phase[s] = "evict" /\ Understood(s, m)
    BY <1>9 DEF TakeEviction
  <2>2. pc = "evict" /\ thread[s] = "payload" /\ Keyed(s) /\ Fits(s, mem) /\ perm[s] = drawn
    <3>1. m.kind = "evict"
      BY <2>1 DEF Understood
    <3>2. Kind[pc] = "evict"
      BY <1>3, <3>1
    <3>3. pc = "evict"
      BY <1>2, <3>2
    <3> QED
      BY <1>2, <2>1, <3>3 DEF CalmServer
  <2>3. /\ phase' = [phase EXCEPT ![s] = "share"] /\ disk' = disk /\ key' = key /\ perm' = perm
        /\ thread' = [thread EXCEPT ![s] = "wait"] /\ sent' = sent
    BY <1>9 DEF TakeEviction, local
  <2> QED
    BY <1>0, <1>1, <2>2, <2>3 DEF CalmServer, Keyed, Fits
<1>10. CASE TakeUnusable(s, m, TRUE)
  <2>1. phase[s] \in {"request", "evict"} /\ ~Understood(s, m)
    BY <1>10 DEF TakeUnusable, BeginsWithLeaf, Understood
  <2>2. pc \in {"transfer", "load"}
    <3>1. CASE pc = "request"
      BY <1>2, <1>3, <2>1, <3>1 DEF CalmServer, Understood
    <3>2. CASE pc = "init"
      BY <1>2, <2>1, <3>2 DEF CalmServer
    <3>3. CASE pc = "evict"
      BY <1>2, <1>3, <2>1, <3>3 DEF CalmServer, Understood
    <3> QED
      BY <1>2, <3>1, <3>2, <3>3
  <2>3. phase'[s] = "command" /\ thread'[s] = "lost" /\ sent' = sent
    <3>1. Restarted(s, TRUE) /\ sent' = sent
      BY <1>10 DEF TakeUnusable, local
    <3> QED
      BY <1>0, <1>2, <3>1 DEF Restarted
  <2> QED
    BY <1>1, <1>2, <2>2, <2>3 DEF CalmServer
<1> QED
  BY <1>3, <1>4, <1>5, <1>6, <1>7, <1>8, <1>9, <1>10 DEF Receive

\* A client dies where the servers bear it: they are left with a request, or one
\* of them with an eviction, and with the files of the client's file.
LEMMA CalmCrash ==
    ASSUME TypeOK, ClientInv, Calm, Crash, fatal' = {}
    PROVE  Calm'
<1> USE KindFacts, OtherFacts
<1>0. /\ thread \in [Server -> {"off", "command", "payload", "wait", "done", "garbled", "lost"}]
      /\ phase \in [Server -> Phases] /\ pc \in PC
  BY DEF TypeOK
<1>1. PICK late \in SUBSET {s \in Server : thread[s] \in {"command", "payload"}
                                          /\ stray[s] = NoMsg} :
          /\ misled' = misled \cup late
          /\ stray' = [s \in Server |-> IF s \in late THEN Message(s) ELSE stray[s]]
          /\ fatal' = fatal \cup (IF Fatal THEN {"client"} ELSE {})
                             \cup (IF late = {} THEN {}
                              ELSE IF pc = "evict" THEN {"eviction"} ELSE {"request"})
  BY DEF Crash
<1>2. late = {} /\ ~Fatal
  BY <1>1
<1>3. /\ pc \in {"create", "load", "request", "init", "evict"}
      /\ pc' = "down" /\ UNCHANGED <<phase, cursor, disk, key, perm, work>>
      /\ misled' = {} /\ \A s \in Server : stray'[s] = NoMsg
      /\ saved' = saved \/ (saved' = NoData /\ pc = "create")
  <2>1. pc \in {"create", "load", "request", "init", "evict"}
    BY <1>0, <1>2 DEF Crash, Fatal
  <2>2. pc' = "down" /\ UNCHANGED <<phase, cursor, disk, key, perm, work>>
        /\ (saved' = saved \/ (saved' = NoData /\ pc = "create"))
    BY <2>1 DEF Crash, loop, memory
  <2>3. misled' = {} /\ \A s \in Server : stray'[s] = NoMsg
    BY <1>1, <1>2 DEF Calm, CalmServer
  <2> QED
    BY <2>1, <2>2, <2>3
<1>4. /\ \A s \in Server : CalmServer(s) /\ phase[s] \notin {"key", "init"}
      /\ pc = "evict" => \E s \in Server : thread[s] \in {"command", "payload"}
  BY <1>2 DEF Fatal, Calm
<1>5. ASSUME pc = "evict"
      PROVE  /\ \A s \in Server : phase[s] \in Leftover /\ Fits(s, mem)
             /\ \E s \in Server : phase[s] # "share"
  <2>1. PICK u \in Server : thread[u] \in {"command", "payload"}
    BY <1>4, <1>5
  <2>2. phase[u] \in {"command", "evict"} /\ Fits(u, mem) /\ ~Met(u)
    BY <1>4, <1>5, <2>1 DEF CalmServer, Met
  <2>3. \A s \in Server : ~Met(s)
    BY <1>5, <2>2 DEF Calm
  <2>4. \A s \in Server : phase[s] \in Leftover /\ Fits(s, mem)
    BY <1>4, <1>5, <2>3 DEF CalmServer, Met, Leftover
  <2> QED
    BY <2>2, <2>4
<1>6. \A s \in Server : phase[s] \in Leftover
  <2>1. CASE pc \in {"create", "load", "request", "init"}
    BY <1>4, <2>1 DEF CalmServer, Leftover
  <2> QED
    BY <1>3, <1>5, <2>1
<1>7. \E s \in Server : phase[s] # "share"
  BY <1>5 DEF Calm
<1>8. saved'.key # 0 => \A s \in Server : Fits(s, saved)'
  <2>1. NoData.key = 0
    BY DEF NoData
  <2>2. CASE pc \in {"create", "load"}
    BY <1>3, <2>1, <2>2 DEF Calm, Fits
  <2>3. CASE pc \in {"request", "init", "evict"}
    <3>1. saved = mem
      BY <2>3 DEF ClientInv
    <3>2. \A s \in Server : Fits(s, mem)
      BY <1>4, <1>5, <2>3 DEF CalmServer
    <3> QED
      BY <1>3, <2>3, <3>1, <3>2 DEF Fits
  <2> QED
    BY <1>3, <2>2, <2>3
<1>9. \A s \in Server : CalmServer(s)'
  BY <1>3, <1>6 DEF CalmServer
<1> QED
  BY <1>3, <1>7, <1>8, <1>9 DEF Calm

\* What the client does by itself leaves the servers in step.
LEMMA CalmClient ==
    ASSUME TypeOK, ClientInv, Calm, Create \/ Load \/ Request \/ Leave \/ Client
    PROVE  Calm'
<1> USE KindFacts, OtherFacts
<1>0. /\ thread \in [Server -> {"off", "command", "payload", "wait", "done", "garbled", "lost"}]
      /\ phase \in [Server -> Phases] /\ pc \in PC
  BY DEF TypeOK
<1>1. UNCHANGED <<phase, cursor, disk, key, perm, work, stray, fatal, misled>>
  BY DEF Create, Load, Request, Leave, Client, Created, NextServer, Ready, RequestDone,
     RequestFails, InitDone, EvictDone, Save, loop, memory, faults
<1>2. /\ misled = {} /\ \A s \in Server : CalmServer(s) /\ stray[s] = NoMsg
      /\ pc = "evict" => (Met(0) <=> Met(1))
      /\ pc # "evict" => \E s \in Server : phase[s] # "share"
      /\ pc \in {"down", "create", "load", "aborted"} /\ saved.key # 0 =>
            \A s \in Server : Fits(s, saved)
  BY DEF Calm, CalmServer
<1>3. ASSUME \A s \in Server : CalmServer(s)', pc' # "evict", pc # "evict",
             pc' \in {"down", "create", "load", "aborted"} /\ saved'.key # 0 =>
                 \A s \in Server : Fits(s, saved)'
      PROVE  Calm'
  BY <1>1, <1>2, <1>3 DEF Calm
<1>4. CASE Create
  <2>1. pc = "down" /\ pc' = "create" /\ saved' = saved
    BY <1>4 DEF Create
  <2>2. \A s \in Server : CalmServer(s)'
    BY <1>1, <1>2, <2>1 DEF CalmServer
  <2> QED
    BY <1>1, <1>2, <1>3, <2>1, <2>2 DEF Fits
<1>5. CASE Load
  <2>1. /\ pc = "down" /\ pc' \in {"load", "undefined"} /\ saved' = saved /\ sent' = 0
        /\ pc' = "load" => \A s \in Server : thread'[s] \in {"off", "command"}
    BY <1>5 DEF Load, FirstServer
  <2>2. \A s \in Server : CalmServer(s)'
    BY <1>1, <1>2, <2>1 DEF CalmServer
  <2> QED
    BY <1>1, <1>2, <1>3, <2>1, <2>2 DEF Fits
<1>6. CASE Request
  <2>1. /\ pc = "menu" /\ pc' = "request" /\ mem' = mem
        /\ \A s \in Server : thread'[s] = "command"
    BY <1>6 DEF Request, BothServers
  <2>2. \A s \in Server : CalmServer(s)'
    BY <1>1, <1>2, <2>1 DEF CalmServer, Keyed, Fits
  <2> QED
    BY <1>3, <2>1, <2>2
<1>7. CASE Leave
  <2>1. pc \in {"menu", "aborted"} /\ pc' = "down" /\ saved' = saved
    BY <1>7 DEF Leave
  <2>2. \A s \in Server : CalmServer(s)'
    BY <1>1, <1>2, <2>1 DEF CalmServer, Leftover
  <2>3. saved'.key # 0 => \A s \in Server : Fits(s, saved)'
    <3>1. CASE pc = "aborted"
      BY <1>1, <1>2, <2>1, <3>1 DEF Fits
    <3>2. CASE pc = "menu"
      <4>1. saved = mem /\ \A s \in Server : Fits(s, mem)
        BY <1>2, <3>2 DEF ClientInv, CalmServer
      <4> QED
        BY <1>1, <2>1, <4>1 DEF Fits
    <3> QED
      BY <2>1, <3>1, <3>2
  <2> QED
    BY <1>3, <2>1, <2>2, <2>3
<1>8. CASE Created
  <2>1. /\ pc = "create" /\ pc' = "transfer" /\ sent' = 0
        /\ \A s \in Server : thread'[s] \in {"off", "command"}
    BY <1>8 DEF Created, FirstServer
  <2>2. \A s \in Server : CalmServer(s)'
    BY <1>1, <1>2, <2>1 DEF CalmServer
  <2> QED
    BY <1>3, <2>1, <2>2
<1>9. CASE NextServer
  <2>1. /\ pc \in {"transfer", "load", "init"} /\ sent' = 0
        /\ UNCHANGED <<pc, mem, drawn, saved>>
        /\ thread[0] \in {"done", "garbled"} /\ thread[1] = "off"
        /\ thread'[0] = thread[0] /\ thread'[1] = "command"
    BY <1>0, <1>9 DEF NextServer, Answered
  <2>2. CalmServer(0)'
    BY <1>1, <1>2, <2>1 DEF CalmServer, Keyed, Fits
  <2>3. CalmServer(1)'
    BY <1>1, <1>2, <2>1 DEF CalmServer, Keyed, Fits
  <2>4. \A s \in Server : s = 0 \/ s = 1
    BY DEF Server
  <2>5. \A s \in Server : CalmServer(s)'
    BY <2>2, <2>3, <2>4
  <2> QED
    BY <1>1, <1>2, <1>3, <2>1, <2>5 DEF Fits
<1>10. CASE Ready
  <2>1. /\ pc \in {"transfer", "load"} /\ pc' = "menu" /\ mem' = mem
        /\ \A s \in Server : thread[s] \in {"done", "garbled"}
    BY <1>10 DEF Ready, AllAnswered, Answered
  <2>2. \A s \in Server : CalmServer(s)'
    BY <1>1, <1>2, <2>1 DEF CalmServer, Keyed, Fits
  <2> QED
    BY <1>3, <2>1, <2>2
<1>11. CASE RequestDone
  <2>1. /\ pc = "request" /\ pc' = "init" /\ mem' = mem
        /\ \A s \in Server : thread[s] = "done" /\ thread'[s] \in {"off", "command"}
    BY <1>11 DEF RequestDone, AllAnswered, Answered, FirstServer
  <2>2. \A s \in Server : CalmServer(s)'
    BY <1>1, <1>2, <2>1 DEF CalmServer, Keyed, Fits
  <2> QED
    BY <1>3, <2>1, <2>2
<1>12. ~RequestFails
  BY <1>2 DEF RequestFails, CalmServer
<1>13. CASE InitDone
  <2>1. /\ pc = "init" /\ pc' = "evict" /\ mem' = mem /\ drawn' = drawn
        /\ \A s \in Server : thread[s] \in {"done", "garbled"} /\ thread'[s] = "command"
    BY <1>13 DEF InitDone, AllAnswered, Answered, BothServers
  <2>2. \A s \in Server : phase[s] = "command"
    BY <1>2, <2>1 DEF CalmServer
  <2>3. \A s \in Server : CalmServer(s)'
    BY <1>1, <1>2, <2>1, <2>2 DEF CalmServer, Keyed, Fits
  <2>4. \A s \in Server : ~Met(s)'
    BY <1>1, <2>1, <2>2 DEF Met
  <2> QED
    BY <1>1, <1>2, <2>1, <2>3, <2>4 DEF Calm
<1>14. CASE EvictDone
  <2> DEFINE leaf == getEvictLeafID(mem.numEvict)
  <2>1. /\ pc = "evict" /\ pc' = "save" /\ mem'.key = mem.key
        /\ mem'.tree = [f \in File |-> IF f \in Targets(leaf) THEN drawn ELSE mem.tree[f]]
        /\ \A s \in Server : thread[s] \in {"done", "garbled"}
    BY <1>14 DEF EvictDone, AllAnswered, Answered, TypeOK, Data
  <2>2. \A s \in Server : phase[s] = "command" /\ Written(s, LastFile) /\ Keyed(s)
    BY <1>2, <2>1 DEF CalmServer
  <2>3. Targets(leaf) = {WriteOrder(leaf)[i] : i \in 0 .. LastFile - 1}
    <3>1. leaf \in Leaf
      BY DataFacts, JobLeafFacts DEF TypeOK
    <3> QED
      BY <3>1, WriteOrderFacts
  <2>4. \A s \in Server : disk[s] = mem'.tree
    <3>1. \A f : f \in Targets(leaf) <=> \E i \in 0 .. LastFile - 1 : WriteOrder(leaf)[i] = f
      BY <2>3
    <3> SUFFICES ASSUME NEW s \in Server PROVE disk[s] = mem'.tree
      OBVIOUS
    <3>2. disk[s] = [f \in File |-> IF \E i \in 0 .. LastFile - 1 : WriteOrder(leaf)[i] = f
                                    THEN drawn ELSE mem.tree[f]]
      BY <2>2 DEF Written
    <3> HIDE DEF leaf
    <3> QED
      BY <2>1, <3>1, <3>2
  <2>5. \A s \in Server : CalmServer(s)'
    <3>1. \A s \in Server : /\ disk'[s] = mem'.tree /\ key'[s] = mem'.key
                            /\ phase'[s] = "command" /\ stray'[s] = NoMsg
      BY <1>1, <1>2, <2>1, <2>2, <2>4 DEF Keyed
    <3> QED
      BY <2>1, <3>1 DEF CalmServer, Keyed, Fits
  <2>6. \E s \in Server : phase'[s] # "share"
    BY <1>1, <2>2
  <2> QED
    BY <1>1, <1>2, <2>1, <2>5, <2>6 DEF Calm
<1>15. CASE Save
  <2>1. pc = "save" /\ pc' = "menu" /\ mem' = mem
    BY <1>15 DEF Save
  <2>2. \A s \in Server : CalmServer(s)'
    BY <1>1, <1>2, <2>1 DEF CalmServer, Keyed, Fits
  <2> QED
    BY <1>3, <2>1, <2>2
<1> QED
  BY <1>4, <1>5, <1>6, <1>7, <1>8, <1>9, <1>10, <1>11, <1>12, <1>13, <1>14, <1>15 DEF Client

\* A server that is restarted when no client needs it.
LEMMA CalmRestart ==
    ASSUME TypeOK, Calm, NEW s \in Server, Restart(s), fatal' = {}
    PROVE  Calm'
<1>1. pc \in {"down", "aborted"}
  BY RestartFacts
<1>2. /\ pc' = pc /\ saved' = saved /\ phase'[s] = "command"
      /\ \A r \in Server \ {s} : phase'[r] = phase[r]
  BY RestartFacts
<1>3. /\ \A r \in Server : phase[r] \in Leftover /\ stray[r] = NoMsg
      /\ misled = {}
      /\ saved.key # 0 => \A r \in Server : Fits(r, saved)
  BY <1>1 DEF Calm, CalmServer
<1>4. disk' = disk
  BY <1>3, RestartDisk DEF Leftover
<1>5. misled' = {}
  BY <1>1, <1>3 DEF Restart
<1>6. \A r \in Server : phase'[r] \in Leftover /\ stray'[r] = NoMsg
  <2>1. stray'[s] = NoMsg /\ \A r \in Server \ {s} : stray'[r] = stray[r]
    BY RestartFacts
  <2> QED
    BY <1>2, <1>3, <2>1 DEF Leftover
<1>7. \A r \in Server : CalmServer(r)'
  BY <1>1, <1>2, <1>6 DEF CalmServer
<1> QED
  BY <1>1, <1>2, <1>3, <1>4, <1>5, <1>7 DEF Calm, Fits

\* Two servers that meet have the same eviction, its material, the client's keys
\* and files: what they compute can be read.
LEMMA CalmMeet ==
    ASSUME TypeOK, ClientInv, JobInv, Calm, fatal = {}, Meet
    PROVE  Calm'
<1> USE OtherFacts
<1>1. \A s \in Server : phase[s] = "share" /\ Busy(s) /\ CalmServer(s)
  BY DEF Meet, Busy, Calm
<1>2. pc = "evict"
  BY <1>1 DEF Calm
<1>3. \A s \in Server : /\ Keyed(s) /\ perm[s] = drawn /\ Fits(s, mem) /\ stray[s] = NoMsg
                        /\ thread[s] = "wait"
  BY <1>1, <1>2 DEF CalmServer
<1>4. \A s \in Server : job[s] = [id |-> drawn, mem |-> mem]
  BY <1>1, <1>2 DEF JobInv
<1>5. Computed = drawn
  <2>1. \A s \in Server : job[s].id = drawn /\ job[s].mem = mem
    BY <1>4
  <2>2. \A s \in Server : /\ perm[s] = job[s].id /\ key[s] = job[s].mem.key
                          /\ disk[s] = job[s].mem.tree
    BY <1>3, <2>1 DEF Keyed, Fits
  <2>3. job[0] = job[1]
    BY <1>4
  <2> QED
    BY <2>1, <2>2, <2>3 DEF Computed
<1>6. /\ UNCHANGED <<pc, mem, drawn, thread, disk, key, perm, stray, misled>>
      /\ \A s \in Server : work'[s] = drawn /\ phase'[s] = "exchange"
  BY <1>5 DEF Meet, local, faults
<1>7. \A s \in Server : CalmServer(s)'
  BY <1>2, <1>3, <1>6 DEF CalmServer, Keyed, Fits
<1>8. \A s \in Server : Met(s)'
  BY <1>6 DEF Met
<1> QED
  BY <1>2, <1>6, <1>7, <1>8 DEF Calm

\* A server that exchanges and writes, and is done.
LEMMA CalmEvicting ==
    ASSUME TypeOK, ClientInv, JobInv, Calm, fatal = {}, NEW s \in Server, Evicting(s)
    PROVE  Calm'
<1> USE OtherFacts
<1>0. /\ thread \in [Server -> {"off", "command", "payload", "wait", "done", "garbled", "lost"}]
      /\ phase \in [Server -> Phases] /\ cursor \in [Server -> 0 .. KeyPos]
      /\ disk \in [Server -> [File -> Version]] /\ mem.tree \in [File -> Version]
  BY DataFacts DEF TypeOK
<1>1. /\ UNCHANGED <<pc, mem, drawn, sent, saved, key, perm, stray, misled>>
      /\ phase[s] \in {"exchange", "write"} /\ phase'[s] \in {"exchange", "write", "command"}
      /\ Busy(s) /\ CalmServer(s) /\ stray[s] = NoMsg /\ misled = {}
  BY EvictingFacts DEF Busy, Calm, CalmServer
<1>2. pc = "evict"
  BY <1>0, <1>1 DEF CalmServer, Leftover, TypeOK, PC, Kind
<1>3. /\ Keyed(s) /\ perm[s] = drawn /\ work[s] = drawn /\ thread[s] = "wait"
      /\ phase[s] = "exchange" => Fits(s, mem)
      /\ phase[s] = "write" => Written(s, cursor[s])
  BY <1>1, <1>2 DEF CalmServer
<1>4. job[s] = [id |-> drawn, mem |-> mem]
  BY <1>1, <1>2 DEF JobInv
<1>5. CalmServer(s)' /\ Met(s) /\ Met(s)'
  <2>1. CASE Exchange(s)
    <3>1. UNCHANGED <<phase, cursor, disk, key, perm, work, thread>>
      BY <2>1 DEF Exchange, loop
    <3> QED
      BY <1>1, <1>2, <3>1, CalmStay DEF Met
  <2>2. CASE BeginWrite(s)
    <3>1. /\ UNCHANGED <<disk, key, perm, work, thread>> /\ phase[s] = "exchange"
          /\ phase'[s] = "write" /\ cursor'[s] = 0
      BY <1>0, <2>2 DEF BeginWrite, memory
    <3>2. Written(s, 0)'
      <4>1. ~ \E i \in 0 .. 0 - 1 : TRUE
        OBVIOUS
      <4>2. disk'[s] = mem'.tree /\ mem'.tree = [f \in File |-> mem'.tree[f]]
        BY <1>0, <1>1, <1>3, <3>1 DEF Fits
      <4> QED
        BY <4>1, <4>2 DEF Written
    <3> QED
      BY <1>1, <1>2, <1>3, <3>1, <3>2 DEF CalmServer, Keyed, Met
  <2>3. CASE WriteFile(s)
    <3> DEFINE W == WriteOrder(getEvictLeafID(mem.numEvict))
    <3>1. /\ UNCHANGED <<key, perm, thread, phase, work>> /\ phase[s] = "write"
          /\ cursor[s] \in 0 .. LastFile - 1 /\ cursor'[s] = cursor[s] + 1
      BY <2>3, WriteFileFacts DEF WriteFile, memory
    <3>2. WriteOrder(JobLeaf(job[s])) = W
      BY <1>4 DEF JobLeaf
    <3>3. \A f \in File : disk'[s][f] = IF f = W[cursor[s]] THEN drawn ELSE disk[s][f]
      BY <1>3, <2>3, <3>2, WriteFileFacts
    <3>4. disk'[s] \in [File -> Version]
      <4>1. TypeOK'
        BY <2>3, ServerTypeOK DEF Evicting
      <4> QED
        BY <4>1 DEF TypeOK
    <3> HIDE DEF W
    <3>5. Written(s, cursor[s])'
      <4>1. \A f \in File : disk[s][f] = IF \E i \in 0 .. cursor[s] - 1 : W[i] = f
                                         THEN drawn ELSE mem.tree[f]
        BY <1>3, <3>1 DEF Written, W
      <4>2. \A f : (\E i \in 0 .. (cursor[s] + 1) - 1 : W[i] = f) <=>
                      (f = W[cursor[s]] \/ \E i \in 0 .. cursor[s] - 1 : W[i] = f)
        <5>1. \A i : i \in 0 .. (cursor[s] + 1) - 1 <=> i = cursor[s] \/ i \in 0 .. cursor[s] - 1
          BY <3>1
        <5> QED
          BY <5>1
      <4>3. \A f \in File : disk'[s][f] = IF \E i \in 0 .. (cursor[s] + 1) - 1 : W[i] = f
                                          THEN drawn ELSE mem.tree[f]
        BY <3>3, <4>1, <4>2
      <4>4. disk'[s] = [f \in File |-> IF \E i \in 0 .. (cursor[s] + 1) - 1 : W[i] = f
                                       THEN drawn ELSE mem.tree[f]]
        BY <3>4, <4>3
      <4>5. cursor'[s] = cursor[s] + 1 /\ mem' = mem /\ drawn' = drawn
        BY <1>1, <3>1
      <4>6. disk'[s] = [f \in File |-> IF \E i \in 0 .. cursor'[s] - 1 : W[i] = f
                                       THEN drawn' ELSE mem'.tree[f]]
        BY <4>4, <4>5
      <4> QED
        BY <4>5, <4>6 DEF Written, W
    <3> QED
      BY <1>1, <1>2, <1>3, <3>1, <3>5 DEF CalmServer, Keyed, Met
  <2>4. CASE Ack(s)
    <3>1. /\ UNCHANGED <<disk, key, perm>> /\ phase[s] = "write" /\ cursor[s] = LastFile
          /\ phase'[s] = "command" /\ thread'[s] = "done"
      BY <1>0, <1>3, <2>4 DEF Ack
    <3>2. Written(s, LastFile)'
      BY <1>1, <1>3, <3>1 DEF Written
    <3> QED
      BY <1>1, <1>2, <1>3, <3>1, <3>2 DEF CalmServer, Keyed, Met
  <2> QED
    BY <2>1, <2>2, <2>3, <2>4 DEF Evicting
<1>6. \A r \in Server \ {s} : CalmServer(r)' /\ (Met(r)' <=> Met(r))
  <2> SUFFICES ASSUME NEW r \in Server, r # s PROVE CalmServer(r)' /\ (Met(r)' <=> Met(r))
    OBVIOUS
  <2>1. /\ phase'[r] = phase[r] /\ cursor'[r] = cursor[r] /\ disk'[r] = disk[r]
        /\ work'[r] = work[r] /\ thread'[r] = thread[r]
    BY EvictingFacts
  <2>2. CalmServer(r)
    BY DEF Calm
  <2>3. CalmServer(r)'
    BY <1>1, <2>1, <2>2, CalmStay
  <2> QED
    BY <2>1, <2>3 DEF Met
<1>7. \A r \in Server : CalmServer(r)'
  BY <1>5, <1>6
<1>8. Met(0)' <=> Met(1)'
  <2>1. Met(0) <=> Met(1)
    BY <1>2 DEF Calm
  <2> QED
    BY <1>5, <1>6, <2>1
<1> QED
  BY <1>1, <1>2, <1>7, <1>8 DEF Calm

\* As long as nothing happens that the program does not survive, the servers are
\* in step with the client.
LEMMA NextCalmInv ==
    ASSUME TypeOK, ClientInv, ServerInv, JobInv, CalmInv, [Next]_vars
    PROVE  CalmInv'
<1> SUFFICES ASSUME fatal' = {} PROVE Calm'
  BY DEF CalmInv, Calm
<1> USE OtherFacts
<1>1. fatal = {} /\ Calm
  BY FaultsGrow DEF CalmInv
<1>2. CASE Create \/ Load \/ Request \/ Leave \/ Client
  BY <1>1, <1>2, CalmClient
<1>3. CASE Crash
  BY <1>1, <1>3, CalmCrash
<1>4. ASSUME NEW s \in Server, Handle(s) PROVE Calm'
  <2>1. /\ UNCHANGED <<pc, mem, drawn, saved, misled>>
        /\ misled = {} /\ \A r \in Server : CalmServer(r)
    BY <1>1, <1>4, HandleFacts DEF Calm
  <2>2. \A r \in Server \ {s} :
           /\ phase'[r] = phase[r] /\ cursor'[r] = cursor[r] /\ disk'[r] = disk[r]
           /\ key'[r] = key[r] /\ perm'[r] = perm[r]
           /\ work'[r] = work[r] /\ stray'[r] = stray[r] /\ thread'[r] = thread[r]
    BY <1>4, HandleFacts
  <2>3. pc = "load" => saved = mem /\ \A r \in Server : Fits(r, mem)
    BY <1>1, KindFacts DEF Calm, ClientInv
  <2>4. /\ CalmServer(s)'
        /\ sent' # sent => pc = "transfer" /\ thread[s] = "payload"
        /\ thread[s] \in {"command", "payload"} /\ (pc = "evict" => thread'[s] # "done")
        /\ phase'[s] = "share" => pc = "evict"
    BY <1>4, <2>1, <2>3, CalmHandle
  <2>5. ASSUME NEW r \in Server, r # s PROVE CalmServer(r)'
    <3>1. sent' = sent \/ pc \notin {"transfer", "load"} \/ thread[r] \notin {"command", "payload"}
      BY <2>4, <2>5 DEF ClientInv, Answered, Server
    <3> QED
      BY <2>1, <2>2, <2>5, <3>1, CalmStay
  <2>6. \A r \in Server : CalmServer(r)'
    BY <2>4, <2>5
  <2>7. pc' = "evict" => (Met(0)' <=> Met(1)')
    <3> SUFFICES ASSUME pc = "evict" PROVE Met(0)' <=> Met(1)'
      BY <2>1
    <3>1. Met(0) <=> Met(1)
      BY <1>1 DEF Calm
    <3>2. ~Met(s)
      <4>1. ~Busy(s)
        BY <1>4, HandleFacts
      <4> QED
        BY <2>4, <4>1 DEF Met, Busy
    <3>3. ~Met(s)'
      <4>1. phase'[s] \notin {"exchange", "write"}
        BY <1>4, HandleFacts
      <4> QED
        BY <2>4, <4>1 DEF Met
    <3>4. \A r \in Server \ {s} : Met(r)' <=> Met(r)
      BY <2>2 DEF Met
    <3> QED
      BY <3>1, <3>2, <3>3, <3>4
  <2>8. pc' # "evict" => \E r \in Server : phase'[r] # "share"
    BY <2>1, <2>4
  <2>9. pc' \in {"down", "create", "load", "aborted"} /\ saved'.key # 0 =>
            \A r \in Server : Fits(r, saved)'
    <3> SUFFICES ASSUME pc \in {"down", "create", "load", "aborted"}, saved.key # 0,
                        NEW r \in Server
                 PROVE  disk'[r] = saved.tree
      BY <2>1 DEF Fits
    <3>1. disk[r] = saved.tree /\ stray[s] = NoMsg
      BY <1>1 DEF Calm, Fits, CalmServer
    <3>2. pc = "load" /\ phase[s] \notin {"tree"}
      <4>1. pc \in DOMAIN Kind
        BY <1>4, <3>1, HandleLive
      <4> QED
        BY <2>1, <4>1, KindFacts DEF CalmServer, Leftover
    <3>3. PICK m \in Msg, live \in BOOLEAN : Receive(s, m, live)
      BY <1>4, HandleMeans
    <3>4. disk' = disk
      BY <3>2, <3>3 DEF Receive, TakeCommand, TakeFile, TakeKey, TakePermutation, TakeRequest,
         TakeEviction, TakeUnusable, memory
    <3> QED
      BY <3>1, <3>4
  <2> QED
    BY <2>1, <2>6, <2>7, <2>8, <2>9 DEF Calm
<1>5. CASE Meet
  BY <1>1, <1>5, CalmMeet
<1>6. ASSUME NEW s \in Server, Evicting(s) PROVE Calm'
  BY <1>1, <1>6, CalmEvicting
<1>7. ASSUME NEW s \in Server, Restart(s) PROVE Calm'
  BY <1>1, <1>7, CalmRestart
<1>8. CASE UNCHANGED vars
  <2>1. \A r \in Server : CalmServer(r)' <=> CalmServer(r)
    BY <1>8 DEF vars, local, loop, memory, CalmServer, Keyed, Fits, Written
  <2> QED
    BY <1>1, <1>8, <2>1 DEF vars, local, loop, memory, faults, Calm, Met, Fits
<1> QED
  BY <1>2, <1>3, <1>4, <1>5, <1>6, <1>7, <1>8 DEF Next, User

-----------------------------------------------------------------------------
(***************************************************************************)
(* The invariant, and what it is for.                                       *)
(***************************************************************************)

\* The invariant holds before the first client.
LEMMA InitCommandInv == Init => CommandInv
<1> SUFFICES ASSUME Init PROVE CommandInv
  OBVIOUS
<1> USE KindFacts, OtherFacts
<1>1. TypeOK
  BY InitTypeOK
<1>2. ClientInv
  <2>1. \A f \in File : mem.tree[f] <= drawn /\ saved.tree[f] <= drawn
    BY DEF Init, NoData, AllFiles
  <2> QED
    BY <2>1 DEF Init, ClientInv, NoServer
<1>3. ServerInv
  BY DEF Init, ServerInv
<1>4. StrayInv /\ JobInv
  BY DEF Init, StrayInv, JobInv, Busy
<1>5. FileInv
  <2>1. NotAhead(saved)
    BY DEF Init, NotAhead, NoData, AllFiles
  <2> QED
    BY <2>1 DEF Init, FileInv, InStep
<1>6. CalmInv
  BY DEF Init, CalmInv, Calm, CalmServer, Leftover, NoData, Fits
<1> QED
  BY <1>1, <1>2, <1>3, <1>4, <1>5, <1>6 DEF CommandInv

\* Every step keeps it.
LEMMA NextCommandInv == CommandInv /\ [Next]_vars => CommandInv'
<1> SUFFICES ASSUME CommandInv, [Next]_vars PROVE CommandInv'
  OBVIOUS
<1>1. TypeOK /\ ClientInv /\ ServerInv /\ StrayInv /\ JobInv /\ FileInv /\ CalmInv
  BY DEF CommandInv
<1>2. TypeOK' /\ ClientInv'
  BY <1>1, NextTypeOK, NextClientInv
<1>3. ServerInv' /\ StrayInv'
  BY <1>1, NextServerInv, NextStrayInv
<1>4. JobInv' /\ FileInv' /\ CalmInv'
  BY <1>1, NextJobInv, NextFileInv, NextCalmInv
<1> QED
  BY <1>2, <1>3, <1>4 DEF CommandInv

\* In every state of the command loop, whoever dies, restarts or comes late, the
\* client, the servers and their disks are as the inductive invariant says.
THEOREM CommandInvariant == Spec => []CommandInv
<1>1. Init => CommandInv
  BY InitCommandInv
<1>2. CommandInv /\ [Next]_vars => CommandInv'
  BY NextCommandInv
<1> QED
  BY <1>1, <1>2, PTL DEF Spec

\* The types of the command loop: every message a server ever receives is one a
\* client has sent, and every file has the version of a build or an eviction.
THEOREM CommandTypes == Spec => []TypeOK
<1>1. CommandInv => TypeOK
  BY DEF CommandInv
<1> QED
  BY <1>1, CommandInvariant, PTL

\* Two servers that exchange copies or write work on the same eviction of the
\* same client: evict() tells neither whose request it serves, and no identifier
\* is compared.
THEOREM SameEvictionHolds == Spec => []SameEviction
<1>1. CommandInv => SameEviction
  BY OtherFacts DEF CommandInv, JobInv, SameEviction, Busy
<1> QED
  BY <1>1, CommandInvariant, PTL

\* The client's file never claims an eviction that a disk does not have, unless
\* both servers took a message for another one.
THEOREM FileStaysBehind == Spec => []FileNotAhead
<1>1. CommandInv => FileNotAhead
  BY DEF CommandInv, FileInv, FileNotAhead, NotAhead, AtLeast
<1> QED
  BY <1>1, CommandInvariant, PTL

\* A client that is ready finds its files and its keys on both servers, after any
\* number of deaths and restarts of the kinds the program survives.
THEOREM ClientsSurvive == Spec => []Survives
<1>1. CommandInv => Survives
  BY DEF CommandInv, CalmInv, Calm, CalmServer, Survives, Keyed
<1> QED
  BY <1>1, CommandInvariant, PTL
=============================================================================
