---------------------------- MODULE CommandLoop ----------------------------
(***************************************************************************)
(* The command loop of the servers and the commands a client sends them     *)
(* from its first start on: the initial tree, its keys, a retrieval, the    *)
(* material of an eviction and the eviction (ServerDuetORAM::start and its  *)
(* handlers, the sending half of ClientDuetORAM, main).  Clients die        *)
(* anywhere and are started again, servers exit and restart anywhere.       *)
(*                                                                          *)
(* A file of a server is known by the number of the build or eviction that  *)
(* wrote it, its version; 0 is a file that is torn, garbled or was never    *)
(* written.  One retrieval stands for the accesses of an epoch, which       *)
(* AccessSession has in detail, with the writes of the file; what the servers compute in an eviction is  *)
(* in SecretSharedShuffle.  The servers do not share a disk with the client *)
(* ("TRANSMIT ... TO NON-LOCAL SERVERS?" is answered y).                    *)
(*                                                                          *)
(* A client has one request at a time at a server: a command, answered OK,  *)
(* then its payload.  A server tells neither the sender nor the kind of     *)
(* what it receives: what is next in the queue is what it waits for.        *)
(***************************************************************************)
EXTENDS DuetORAM

CONSTANTS
    MaxDrawn,       \* bound: builds and evictions
    MaxFailures     \* bound: clients that die, requests they leave that are
                    \* delivered late, and servers that are restarted

ASSUME LoopAssumption == MaxDrawn \in Nat /\ MaxFailures \in Nat

VARIABLES
    pc,         \* where the client is
    mem,        \* its memory: the version of every file, its keys, numEvict
    drawn,      \* builds and evictions so far
    thread,     \* the client's request at every server
    sent,       \* the position in the initial tree
    saved,      \* the client's file
    phase,      \* what a server waits for or does
    cursor,     \* the file it receives or writes next
    disk,       \* the version of every file of its disk
    key,        \* the build its mask_key is from, 0 for none
    perm,       \* the eviction keytoPermutation and the punctured matrix are for
    job,        \* the eviction it was sent
    work,       \* the version of the buckets it has computed
    got, acked, \* the exchange of the copies: received, and answered
    stray,      \* the request of a dead client it has not received yet
    failures,   \* failures so far
    fatal,      \* history: those the program does not survive.  The client
                \* died ("client") or left a "request" or an "eviction" behind,
                \* a server restarted under it ("server")
    misled      \* history: the servers that may have taken a message for another
                \* one: a request of a dead client came late, or they were
                \* restarted when they waited for the payload of an eviction

local  == <<pc, mem, drawn, sent>>
loop   == <<phase, cursor>>
memory == <<key, perm, job, work, got, acked>>
faults == <<failures, fatal, misled>>
vars   == <<local, thread, saved, loop, disk, memory, stray, faults>>

Server   == {0, 1}
Other(s) == 1 - s

\* The files of a server: the bucket of node n, and its IVs.
File      == 0 .. 2 * NUM_NODES - 1
Bucket(n) == 2 * n
Ivs(n)    == 2 * n + 1
KeyPos    == 2 * NUM_NODES          \* the position of the key after the files
Version   == 0 .. MaxDrawn

AllFiles(v) == [f \in File |-> v]
NoData == [tree |-> AllFiles(0), key |-> 0, numEvict |-> 0]
NoJob  == [id |-> 0, mem |-> NoData]
NoMsg  == [kind |-> "none"]

\* pc: "create" and "save" while the file is open, "transfer" while the tree
\* is sent, "undefined" when a file was loaded that is not complete.
Kind == [transfer |-> "tree", load |-> "key", request |-> "request",
         init |-> "init", evict |-> "evict"]
PC == DOMAIN Kind \cup {"down", "create", "menu", "save", "aborted", "undefined"}

\* thread: a request is a command or a payload until it is received, "wait"
\* while an eviction runs; its end is "done", "garbled" when the server has
\* taken the payload for something else, "lost" when no answer will come.
Phases == {"command", "tree", "key", "init", "request", "evict",
           "share", "exchange", "write"}

\* The buckets an eviction of a leaf reads, and the files it writes in order.
Sources(leaf) ==
    {f \in File : f \div 2 \in {FullPath[leaf][l] : l \in Level} \cup {getSibling(leaf)}}
TargetNodes(leaf) ==
    [i \in 0 .. HEIGHT + 1 |->
        CASE i < HEIGHT     -> getSibling(FullPath[leaf][i + 1])
          [] i = HEIGHT     -> leaf
          [] i = HEIGHT + 1 -> 0]
WriteOrder(leaf) ==
    [i \in 0 .. 2 * (HEIGHT + 2) - 1 |->
        IF i % 2 = 0 THEN Bucket(TargetNodes(leaf)[i \div 2])
                     ELSE Ivs(TargetNodes(leaf)[i \div 2])]
Targets(leaf) == {f \in File : f \div 2 \in {TargetNodes(leaf)[i] : i \in 0 .. HEIGHT + 1}}
JobLeaf(j) == getEvictLeafID(j.mem.numEvict)

Fits(s, m) == disk[s] = m.tree

Init ==
    /\ pc = "down"
    /\ mem = NoData /\ saved = NoData
    /\ drawn = 0 /\ sent = 0
    /\ thread = [s \in Server |-> "off"]
    /\ phase = [s \in Server |-> "command"]
    /\ cursor = [s \in Server |-> 0]
    /\ disk = [s \in Server |-> AllFiles(0)]
    /\ key = [s \in Server |-> 0] /\ perm = [s \in Server |-> 0]
    /\ job = [s \in Server |-> NoJob] /\ work = [s \in Server |-> 0]
    /\ got = [s \in Server |-> FALSE] /\ acked = [s \in Server |-> FALSE]
    /\ stray = [s \in Server |-> NoMsg]
    /\ failures = 0
    /\ fatal = {} /\ misled = {}
-----------------------------------------------------------------------------
(***************************************************************************)
(* The client.                                                              *)
(***************************************************************************)
FirstServer == [s \in Server |-> IF s = 0 THEN "command" ELSE "off"]
BothServers == [s \in Server |-> "command"]
NoServer    == [s \in Server |-> "off"]

\* Variant a run must reject: an eviction that runs is taken for answered.
AnsweredEarly(s) == thread[s] \in {"done", "garbled", "wait"}

Answered(s) == thread[s] \in {"done", "garbled"}

\* Variant a run must reject: only the first thread is joined.
FirstAnswered == Answered(0)

AllAnswered == \A s \in Server : Answered(s)

\* Variant a run must reject: numEvict is not taken modulo N_leaf.
NextEvictUnbounded(n) == n + 1

NextEvict(n) == (n + 1) % N_leaf

\* init(): new keys, a new tree, and the file is opened ...
Create ==
    /\ pc = "down" /\ drawn < MaxDrawn
    /\ drawn' = drawn + 1
    /\ mem' = [tree |-> AllFiles(drawn'), key |-> drawn', numEvict |-> 0]
    /\ pc' = "create"
    /\ UNCHANGED <<thread, sent, saved, loop, disk, memory, stray, faults>>

\* ... and written; sendORAMTree() starts.
Created ==
    /\ pc = "create"
    /\ saved' = mem
    /\ thread' = FirstServer /\ sent' = 0
    /\ pc' = "transfer"
    /\ UNCHANGED <<mem, drawn, loop, disk, memory, stray, faults>>

\* load(): the memory comes from the file, the keys go to the servers.
Load ==
    /\ pc = "down" /\ drawn > 0
    /\ IF saved.key = 0
       THEN pc' = "undefined" /\ UNCHANGED <<mem, thread>>
       ELSE pc' = "load" /\ mem' = saved /\ thread' = FirstServer
    /\ sent' = 0
    /\ UNCHANGED <<drawn, saved, loop, disk, memory, stray, faults>>

\* The tree, the keys and the material go to one server after the other.
NextServer ==
    /\ pc \in {"transfer", "load", "init"}
    /\ Answered(0) /\ thread[1] = "off"
    /\ thread' = [thread EXCEPT ![1] = "command"]
    /\ sent' = 0
    /\ UNCHANGED <<pc, mem, drawn, saved, loop, disk, memory, stray, faults>>

\* The tree or the keys have been sent.
Ready ==
    /\ pc \in {"transfer", "load"} /\ AllAnswered
    /\ thread' = NoServer /\ sent' = 0
    /\ pc' = "menu"
    /\ UNCHANGED <<mem, drawn, saved, loop, disk, memory, stray, faults>>

\* The accesses of an epoch.
Request ==
    /\ pc = "menu" /\ drawn < MaxDrawn
    /\ thread' = BothServers
    /\ pc' = "request"
    /\ UNCHANGED <<mem, drawn, sent, saved, loop, disk, memory, stray, faults>>

\* A retrieved block is not the one asked for.
RequestFails ==
    /\ pc = "request" /\ AllAnswered
    /\ \E s \in Server : thread[s] = "garbled" \/ ~Fits(s, mem)
    /\ thread' = NoServer
    /\ pc' = "aborted"
    /\ UNCHANGED <<mem, drawn, sent, saved, loop, disk, memory, stray, faults>>

\* The material of the next eviction is sent: sendInitialPermutation.
RequestDone ==
    /\ pc = "request"
    /\ AllAnswered /\ \A s \in Server : thread[s] # "garbled"
    /\ drawn' = drawn + 1
    /\ thread' = FirstServer
    /\ pc' = "init"
    /\ UNCHANGED <<mem, sent, saved, loop, disk, memory, stray, faults>>

\* Variant a run must reject: the eviction goes to one server after the other.
InitDoneInTurn ==
    /\ pc = "init" /\ AllAnswered
    /\ thread' = FirstServer
    /\ pc' = "evict"
    /\ UNCHANGED <<mem, drawn, sent, saved, loop, disk, memory, stray, faults>>

\* Two seconds later the eviction.
InitDone ==
    /\ pc = "init" /\ AllAnswered
    /\ thread' = BothServers
    /\ pc' = "evict"
    /\ UNCHANGED <<mem, drawn, sent, saved, loop, disk, memory, stray, faults>>

\* Both servers have acknowledged it: the client notes it ...
EvictDone ==
    /\ pc = "evict" /\ AllAnswered
    /\ LET targets == Targets(getEvictLeafID(mem.numEvict))
       IN  mem' = [mem EXCEPT !.tree = [f \in File |-> IF f \in targets THEN drawn ELSE @[f]],
                              !.numEvict = NextEvict(@)]
    /\ thread' = NoServer
    /\ pc' = "save"
    /\ UNCHANGED <<drawn, sent, saved, loop, disk, memory, stray, faults>>

\* ... and writes its file.
Save ==
    /\ pc = "save"
    /\ saved' = mem
    /\ pc' = "menu"
    /\ UNCHANGED <<mem, drawn, thread, sent, loop, disk, memory, stray, faults>>

Leave ==
    /\ pc \in {"menu", "aborted"}
    /\ pc' = "down"
    /\ mem' = NoData
    /\ UNCHANGED <<thread, drawn, sent, saved, loop, disk, memory, stray, faults>>

\* What the client has sent to a server.
Message(s) == [kind |-> Kind[pc], part |-> thread[s], pos |-> sent, id |-> drawn, mem |-> mem]

\* A client must not die in the transfer of the tree, between an eviction both
\* servers have been sent and the write of its file, nor when a server waits
\* for its key or its material, nor leave requests behind.
Fatal ==
    \/ pc \in {"transfer", "save"}
    \/ pc = "evict" /\ \A s \in Server : thread[s] \notin {"command", "payload"}
    \/ \E s \in Server : phase[s] \in {"key", "init"}

\* The client dies; the requests to the servers of late are still delivered.
Crash ==
    /\ pc \notin {"down", "menu", "aborted", "undefined"}
    /\ pc' = "down"
    /\ mem' = NoData /\ thread' = NoServer /\ sent' = 0
    /\ saved' \in IF pc \in {"create", "save"} THEN {saved, NoData} ELSE {saved}
    /\ \E late \in SUBSET {s \in Server : thread[s] \in {"command", "payload"}
                                         /\ stray[s] = NoMsg} :
          /\ failures' = failures + 1 + Cardinality(late)
          /\ failures' <= MaxFailures
          /\ misled' = misled \cup late
          /\ stray' = [s \in Server |-> IF s \in late THEN Message(s) ELSE stray[s]]
          /\ fatal' = fatal \cup (IF Fatal THEN {"client"} ELSE {})
                             \cup (IF late = {} THEN {}
                              ELSE IF pc = "evict" THEN {"eviction"} ELSE {"request"})
    /\ UNCHANGED <<drawn, loop, disk, memory>>
-----------------------------------------------------------------------------
(***************************************************************************)
(* A server receives a message m, from the client that runs (live) or from  *)
(* one that is dead.                                                        *)
(***************************************************************************)

\* The client's end of an answered request.
NextRequest(s, understood) ==
    IF thread[s] = "command" \/ (pc = "transfer" /\ sent < KeyPos) THEN "payload"
    ELSE IF understood THEN "done" ELSE "garbled"

Answer(s, live, understood) ==
    IF live
    THEN /\ thread' = [thread EXCEPT ![s] = NextRequest(s, understood)]
         /\ sent' = IF pc = "transfer" /\ thread[s] = "payload" /\ sent < KeyPos
                    THEN sent + 1 ELSE sent
         /\ UNCHANGED stray
    ELSE /\ stray' = [stray EXCEPT ![s] = NoMsg]
         /\ UNCHANGED <<thread, sent>>

\* The payload the handler expects.
Understood(s, m) == m.part = "payload" /\ m.kind = phase[s]

\* The loop: a command starts its handler, anything else is ignored.
TakeCommand(s, m, live) ==
    /\ phase[s] = "command"
    /\ phase' = [phase EXCEPT ![s] = IF m.part = "command" THEN m.kind ELSE "command"]
    /\ Answer(s, live, FALSE)
    /\ UNCHANGED <<pc, mem, drawn, saved, cursor, disk, memory, faults>>

\* recvORAMTree: file after file ...
TakeFile(s, m, live) ==
    /\ phase[s] = "tree" /\ cursor[s] < KeyPos
    /\ LET right == Understood(s, m) /\ m.pos = cursor[s]
       IN  /\ disk' = [disk EXCEPT ![s][cursor[s]] = IF right THEN m.mem.key ELSE 0]
           /\ Answer(s, live, right)
    /\ cursor' = [cursor EXCEPT ![s] = @ + 1]
    /\ UNCHANGED <<pc, mem, drawn, saved, phase, memory, faults>>

\* ... and the key; recvORAMKey.
TakeKey(s, m, live) ==
    /\ phase[s] = "key" \/ (phase[s] = "tree" /\ cursor[s] = KeyPos)
    /\ LET right == Understood(s, m) /\ (phase[s] = "tree" => m.pos = KeyPos)
       IN  /\ key' = [key EXCEPT ![s] = IF right THEN m.mem.key ELSE 0]
           /\ Answer(s, live, right)
    /\ phase' = [phase EXCEPT ![s] = "command"]
    /\ cursor' = [cursor EXCEPT ![s] = 0]
    /\ UNCHANGED <<pc, mem, drawn, saved, disk, perm, job, work, got, acked, faults>>

\* recvInitialPermutation.
TakePermutation(s, m, live) ==
    /\ phase[s] = "init"
    /\ perm' = [perm EXCEPT ![s] = IF Understood(s, m) THEN m.id ELSE 0]
    /\ Answer(s, live, Understood(s, m))
    /\ phase' = [phase EXCEPT ![s] = "command"]
    /\ UNCHANGED <<pc, mem, drawn, saved, cursor, disk, key, job, work, got, acked,
                   faults>>

\* The payload of a retrieval or an eviction: it begins with a leaf.
BeginsWithLeaf(m) == m.part = "payload" /\ m.kind \in {"request", "evict"}

\* retrieve: also the payload of an eviction names a path and is answered.
TakeRequest(s, m, live) ==
    /\ phase[s] = "request" /\ BeginsWithLeaf(m)
    /\ Answer(s, live, Understood(s, m))
    /\ phase' = [phase EXCEPT ![s] = "command"]
    /\ UNCHANGED <<pc, mem, drawn, saved, cursor, disk, memory, faults>>

\* evict: there is no answer before it is done.
TakeEviction(s, m, live) ==
    /\ phase[s] = "evict" /\ Understood(s, m)
    /\ job' = [job EXCEPT ![s] = [id |-> m.id, mem |-> m.mem]]
    /\ phase' = [phase EXCEPT ![s] = "share"]
    /\ IF live THEN thread' = [thread EXCEPT ![s] = "wait"] /\ UNCHANGED stray
               ELSE stray' = [stray EXCEPT ![s] = NoMsg] /\ UNCHANGED thread
    /\ UNCHANGED <<local, saved, cursor, disk, key, perm, work, got, acked, faults>>

\* The memory of a server that starts again.  A request it had received is
\* never answered; one still on its way is answered by the new server.
Restarted(s, lost) ==
    /\ phase' = [phase EXCEPT ![s] = "command"]
    /\ cursor' = [cursor EXCEPT ![s] = 0]
    /\ key' = [key EXCEPT ![s] = 0] /\ perm' = [perm EXCEPT ![s] = 0]
    /\ job' = [job EXCEPT ![s] = NoJob] /\ work' = [work EXCEPT ![s] = 0]
    /\ got' = [got EXCEPT ![s] = FALSE]
    /\ stray' = [stray EXCEPT ![s] = NoMsg]
    /\ thread' = IF thread[s] = "wait" \/ (lost /\ thread[s] \in {"command", "payload"})
                 THEN [thread EXCEPT ![s] = "lost"] ELSE thread

\* What does not begin with a leaf names no path: a bucket of it has no file,
\* and the server exits.  The payload of a retrieval names one, but evict takes
\* the bytes after it for a permutation, and dies at an index out of bounds
\* before it writes anything.
TakeUnusable(s, m, live) ==
    /\ \/ phase[s] = "request" /\ ~BeginsWithLeaf(m)
       \/ phase[s] = "evict" /\ ~Understood(s, m)
    /\ \E lost \in BOOLEAN : (live => lost) /\ Restarted(s, lost)
    /\ acked' = [acked EXCEPT ![s] = FALSE]
    /\ UNCHANGED <<local, saved, disk, faults>>

Receive(s, m, live) ==
    \/ TakeCommand(s, m, live) \/ TakeFile(s, m, live) \/ TakeKey(s, m, live)
    \/ TakePermutation(s, m, live) \/ TakeRequest(s, m, live)
    \/ TakeEviction(s, m, live) \/ TakeUnusable(s, m, live)

Handle(s) ==
    \/ thread[s] \in {"command", "payload"} /\ Receive(s, Message(s), TRUE)
    \/ stray[s] # NoMsg /\ Receive(s, stray[s], FALSE)
-----------------------------------------------------------------------------
(***************************************************************************)
(* An eviction.                                                             *)
(***************************************************************************)

\* What both servers compute can be read only if they run the same eviction
\* with its material and the client's keys, on the buckets the client knows.
Computed ==
    IF /\ job[0] = job[1]
       /\ \A s \in Server :
             /\ perm[s] = job[s].id /\ key[s] = job[s].mem.key
             /\ \A f \in Sources(JobLeaf(job[s])) : disk[s][f] = job[s].mem.tree[f]
    THEN job[0].id ELSE 0

\* secretShare: both servers have to be there.
Meet ==
    /\ \A s \in Server : phase[s] = "share"
    /\ work' = [s \in Server |-> Computed]
    /\ phase' = [s \in Server |-> "exchange"]
    /\ UNCHANGED <<local, thread, saved, cursor, disk, key, perm, job, got, acked,
                   stray, faults>>

\* A server sends its half of the new copy, the other one answers.
Exchange(s) ==
    /\ phase[s] = "exchange" /\ phase[Other(s)] = "exchange"
    /\ ~got[Other(s)]
    /\ got' = [got EXCEPT ![Other(s)] = TRUE]
    /\ acked' = [acked EXCEPT ![s] = TRUE]
    /\ UNCHANGED <<local, thread, saved, loop, disk, key, perm, job, work, stray, faults>>

\* Variant a run must reject: the sending thread is not joined.
ExchangeReceived(s) == got[s]

\* Both threads are joined.
ExchangeDone(s) == got[s] /\ acked[s]

BeginWrite(s) ==
    /\ phase[s] = "exchange" /\ ExchangeDone(s)
    /\ phase' = [phase EXCEPT ![s] = "write"]
    /\ cursor' = [cursor EXCEPT ![s] = 0]
    /\ UNCHANGED <<local, thread, saved, disk, memory, stray, faults>>

\* Variant a run must reject: the IVs of the root are not written.
LastFileShort == 2 * (HEIGHT + 2) - 1

LastFile == 2 * (HEIGHT + 2)

WriteFile(s) ==
    /\ phase[s] = "write" /\ cursor[s] < LastFile
    /\ disk' = [disk EXCEPT ![s][WriteOrder(JobLeaf(job[s]))[cursor[s]]] = work[s]]
    /\ cursor' = [cursor EXCEPT ![s] = @ + 1]
    /\ UNCHANGED <<local, thread, saved, phase, memory, stray, faults>>

\* The client, if it still waits, is answered.
Ack(s) ==
    /\ phase[s] = "write" /\ cursor[s] = LastFile
    /\ phase' = [phase EXCEPT ![s] = "command"]
    /\ cursor' = [cursor EXCEPT ![s] = 0]
    /\ job' = [job EXCEPT ![s] = NoJob] /\ work' = [work EXCEPT ![s] = 0]
    /\ got' = [got EXCEPT ![s] = FALSE] /\ acked' = [acked EXCEPT ![s] = FALSE]
    /\ thread' = IF thread[s] = "wait" THEN [thread EXCEPT ![s] = "done"] ELSE thread
    /\ UNCHANGED <<local, saved, disk, key, perm, stray, faults>>

\* A server is started again.  The file it was writing may be torn, and the
\* answer the other one waits for lost.
Restart(s) ==
    /\ failures < MaxFailures
    /\ failures' = failures + 1
    /\ \E lost \in BOOLEAN : Restarted(s, lost)
    /\ \E torn \in SUBSET (
            IF phase[s] = "tree" /\ cursor[s] < KeyPos THEN {cursor[s]}
            ELSE IF phase[s] = "write" /\ cursor[s] < LastFile
            THEN {WriteOrder(JobLeaf(job[s]))[cursor[s]]} ELSE {}) :
          disk' = [disk EXCEPT ![s] = [f \in File |-> IF f \in torn THEN 0 ELSE @[f]]]
    /\ \E told \in BOOLEAN :
          acked' = [acked EXCEPT ![s] = FALSE,
                                 ![Other(s)] = @ /\ (phase[Other(s)] = "exchange" => told)]
    /\ fatal' = IF pc \in {"down", "aborted"} THEN fatal ELSE fatal \cup {"server"}
    /\ misled' = IF pc = "evict" /\ phase[s] = "evict" THEN misled \cup {s} ELSE misled
    /\ UNCHANGED <<local, saved>>

Evicting(s) == Exchange(s) \/ BeginWrite(s) \/ WriteFile(s) \/ Ack(s)
User == Create \/ Load \/ Request \/ Leave \/ Crash
Client == Created \/ NextServer \/ Ready \/ RequestDone \/ RequestFails
          \/ InitDone \/ EvictDone \/ Save

Next ==
    \/ User \/ Client \/ Meet
    \/ \E s \in Server : Handle(s) \/ Evicting(s) \/ Restart(s)

\* The processes that run take their steps; users do as they like.
Fairness ==
    /\ WF_vars(Client) /\ WF_vars(Meet)
    /\ \A s \in Server : WF_vars(Handle(s)) /\ WF_vars(Evicting(s))

Spec == Init /\ [][Next]_vars /\ Fairness
-----------------------------------------------------------------------------
Data == [tree : [File -> Version], key : Version, numEvict : 0 .. N_leaf - 1]
Msg  == [kind : {Kind[c] : c \in DOMAIN Kind}, part : {"command", "payload"},
         pos : 0 .. KeyPos, id : Version, mem : Data]

TypeOK ==
    /\ pc \in PC /\ drawn \in Version /\ sent \in 0 .. KeyPos
    /\ mem \in Data /\ saved \in Data
    /\ thread \in [Server -> {"off", "command", "payload", "wait", "done", "garbled", "lost"}]
    /\ phase \in [Server -> Phases] /\ cursor \in [Server -> 0 .. KeyPos]
    /\ disk \in [Server -> [File -> Version]]
    /\ key \in [Server -> Version] /\ perm \in [Server -> Version]
    /\ job \in [Server -> [id : Version, mem : Data]] /\ work \in [Server -> Version]
    /\ got \in [Server -> BOOLEAN] /\ acked \in [Server -> BOOLEAN]
    /\ stray \in [Server -> Msg \cup {NoMsg}]
    /\ failures \in Nat /\ fatal \subseteq {"client", "request", "eviction", "server"}
    /\ misled \subseteq Server

\* Whatever else happened, a client that is ready finds on both servers the
\* files it knows, its keys, and nobody else's request half received.
Survives ==
    pc = "menu" /\ fatal = {} =>
        \A s \in Server : Fits(s, mem) /\ key[s] = mem.key /\ phase[s] = "command"

\* Two servers that exchange or write work on the same eviction, whatever was
\* lost, mistaken or restarted, and whatever came late but an eviction.
SameEviction ==
    "eviction" \notin fatal /\ (\A s \in Server : phase[s] \in {"exchange", "write"})
        => job[0] = job[1]

\* What the client's file says of an eviction is on both disks, or garbled
\* there: the file is never ahead of the servers, as long as one of them takes
\* every message for what it is.  Both servers may restart before the eviction,
\* in it and while they write.
FileNotAhead ==
    "eviction" \notin fatal /\ misled # Server =>
        \A f \in File : saved.tree[f] # saved.key =>
            \A s \in Server : disk[s][f] = 0 \/ disk[s][f] >= saved.tree[f]

Busy(s) == phase[s] \in {"share", "exchange", "write"}

\* Two servers that were both sent an eviction finish it, if neither of them is
\* restarted, whether or not a client waits for it.
EvictionFinishes ==
    \A n \in 0 .. MaxFailures :
        (Busy(0) /\ Busy(1) /\ job[0] = job[1] /\ failures = n)
            ~> ((~Busy(0) /\ ~Busy(1)) \/ failures > n)

Idle == \A s \in Server : phase[s] = "command" /\ stray[s] = NoMsg

\* A client that finds both servers idle is answered, whatever happened before.
ClientServed ==
    \A n \in 0 .. MaxFailures :
        (pc \in DOMAIN Kind /\ thread \in {FirstServer, BothServers} /\ Idle /\ failures = n)
            ~> (pc \in {"menu", "aborted"} \/ failures > n)
-----------------------------------------------------------------------------
(***************************************************************************)
(* Why the invariants hold: the inductive invariant.                        *)
(***************************************************************************)

\* A tree no eviction has changed yet.
Unevicted(m) == m.tree = AllFiles(m.key)

\* File f of server s is garbled, or at least of version v.
AtLeast(s, f, v) == disk[s][f] = 0 \/ disk[s][f] >= v

\* What the memory m of a client says of evictions is on both disks.
NotAhead(m) ==
    \A f \in File : m.tree[f] # m.key => \A s \in Server : AtLeast(s, f, m.tree[f])

\* The client serves one server after the other or both at a time, its memory
\* is what its file has until an eviction is done, and no version is from the
\* future.
ClientInv ==
    /\ pc \notin DOMAIN Kind => thread = NoServer
    /\ pc \in {"transfer", "load", "init"} =>
          thread[0] # "off" /\ (thread[1] = "off" \/ Answered(0))
    /\ pc \in {"request", "evict"} => \A s \in Server : thread[s] # "off"
    /\ \A s \in Server : thread[s] = "wait" => pc = "evict" /\ Busy(s)
    /\ pc = "request" => drawn < MaxDrawn
    /\ pc = "load" => saved.key # 0
    /\ pc \in {"create", "transfer"} => Unevicted(mem) /\ mem.key = drawn
    /\ pc \in DOMAIN Kind \cup {"menu"} => saved = mem
    /\ \A f \in File : mem.tree[f] <= drawn /\ saved.tree[f] <= drawn

\* A server writes what it has computed, file after file.
ServerInv ==
    \A s \in Server :
        /\ phase[s] = "write" => cursor[s] <= LastFile
        /\ phase[s] \notin {"tree", "write"} => cursor[s] = 0
        /\ phase[s] \in {"exchange", "write"} => work[s] \in {0, job[s].id}
        /\ phase[s] = "write" => \A i \in 0 .. cursor[s] - 1 :
              AtLeast(s, WriteOrder(JobLeaf(job[s]))[i], job[s].id)

\* A file of an old tree that comes late finds no server that waits for one,
\* but where the tree is to be sent anew.
StrayInv ==
    \A s \in Server :
        phase[s] = "tree" /\ stray[s] # NoMsg /\ stray[s].kind = "tree" =>
            /\ Unevicted(saved)
            /\ pc \notin {"init", "evict", "save"}
            /\ pc = "request" => thread[s] # "done"

\* An eviction a server works on is the client's, or one of a dead client; the
\* next client does not get past that server before it is done with it.
JobInv ==
    "eviction" \notin fatal =>
        /\ \A s \in Server :
            /\ stray[s] # NoMsg => stray[s].kind # "evict"
            /\ Busy(s) =>
                  /\ pc \notin {"menu", "request", "init", "save", "aborted"}
                  /\ pc \in {"transfer", "load"} => thread[s] \in {"off", "command", "lost"}
                  /\ pc = "evict" => /\ thread[s] = "wait"
                                     /\ job[s] = [id |-> drawn, mem |-> mem]
                  /\ \A f \in File :
                        saved.tree[f] = saved.key \/ saved.tree[f] <= job[s].id
        /\ Busy(0) /\ Busy(1) => job[0] = job[1]

\* Where a server that is not misled is between a retrieval and the end of the
\* eviction that follows it.
InStep(u) ==
    /\ stray[u] = NoMsg
    /\ pc = "request" /\ thread[u] = "done" => phase[u] = "command"
    /\ pc = "init" => \/ phase[u] = "command" \/ thread[u] = "lost"
                      \/ phase[u] = "init" /\ thread[u] = "payload"
    /\ pc = "evict" =>
          /\ thread[u] # "garbled"
          /\ thread[u] = "command" => phase[u] = "command"
          /\ thread[u] = "payload" => phase[u] = "evict"
          /\ thread[u] = "done" \/ phase[u] \in {"exchange", "write"} =>
                thread[Other(u)] \in {"wait", "done", "lost"}

\* What the client's file says is on the disks; what it will say is there when
\* both servers have answered.
FileInv ==
    "eviction" \notin fatal /\ misled # Server =>
        /\ NotAhead(saved)
        /\ pc = "save" => NotAhead(mem)
        /\ pc = "evict" => \A s \in Server : thread[s] = "done" =>
              \A f \in Targets(getEvictLeafID(mem.numEvict)) : AtLeast(s, f, drawn)
        /\ \A u \in Server \ misled : InStep(u)

\* A disk on which an eviction of the client has written its first n files.
Written(s, n) ==
    disk[s] = [f \in File |->
        IF \E i \in 0 .. n - 1 : WriteOrder(getEvictLeafID(mem.numEvict))[i] = f
        THEN drawn ELSE mem.tree[f]]

\* What a client that dies in the middle of a request may leave behind.
Leftover == {"command", "request", "evict", "share"}

Keyed(s) == key[s] = mem.key

\* A server when nothing has gone wrong that a program does not survive: in
\* step with the client, with its keys, its material and its files.
CalmServer(s) ==
    /\ stray[s] = NoMsg
    /\ pc \in {"down", "create", "aborted", "undefined"} => phase[s] \in Leftover
    /\ pc \in {"transfer", "load"} =>
          \/ thread[s] = "off" /\ phase[s] \in Leftover
          \/ thread[s] = "command" /\ phase[s] \in Leftover /\ sent = 0
          \/ thread[s] = "lost" /\ phase[s] = "command"
          \/ thread[s] = "payload" /\ pc = "load" /\ phase[s] = "key"
          \/ /\ thread[s] = "payload" /\ pc = "transfer" /\ phase[s] = "tree"
             /\ cursor[s] = sent /\ \A f \in 0 .. sent - 1 : disk[s][f] = mem.key
          \/ thread[s] = "done" /\ phase[s] = "command" /\ Keyed(s) /\ Fits(s, mem)
    /\ pc \in {"menu", "save"} => phase[s] = "command" /\ Keyed(s) /\ Fits(s, mem)
    /\ pc \in {"request", "init"} =>
          /\ Keyed(s) /\ Fits(s, mem) /\ thread[s] \in {"off", "command", "payload", "done"}
          /\ phase[s] = IF thread[s] = "payload" THEN pc ELSE "command"
          /\ pc = "init" /\ thread[s] = "done" => perm[s] = drawn
    /\ pc = "evict" =>
          /\ Keyed(s) /\ perm[s] = drawn
          /\ \/ thread[s] \in {"command", "payload"} /\ Fits(s, mem)
                /\ phase[s] = IF thread[s] = "payload" THEN "evict" ELSE "command"
             \/ thread[s] = "wait" /\ phase[s] \in {"share", "exchange"} /\ Fits(s, mem)
             \/ thread[s] = "wait" /\ phase[s] = "write" /\ Written(s, cursor[s])
             \/ thread[s] = "done" /\ phase[s] = "command" /\ Written(s, LastFile)
          /\ phase[s] \in {"exchange", "write"} => work[s] = drawn

\* The servers begin to exchange, and to write, when both have the eviction.
Met(s) == phase[s] \in {"exchange", "write"} \/ thread[s] = "done"

Calm ==
    /\ misled = {}
    /\ \A s \in Server : CalmServer(s)
    /\ pc = "evict" => (Met(0) <=> Met(1))
    /\ pc # "evict" => \E s \in Server : phase[s] # "share"
    /\ pc \in {"down", "create", "load", "aborted"} /\ saved.key # 0 =>
          \A s \in Server : Fits(s, saved)

CalmInv == fatal = {} => Calm

CommandInv ==
    TypeOK /\ ClientInv /\ ServerInv /\ StrayInv /\ JobInv /\ FileInv /\ CalmInv
=============================================================================
