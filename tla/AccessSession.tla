--------------------------- MODULE AccessSession ---------------------------
(***************************************************************************)
(* The messages of an access: the client retrieves a block with two shares  *)
(* of its position, one per server, uploads it again under fresh masks, and *)
(* writes its file (ClientDuetORAM::access up to the eviction; retrieve,    *)
(* recvBlock, recvORAMKey and the command loop of ServerDuetORAM).  Clients *)
(* die between two messages and come back with load(); servers restart.     *)
(*                                                                          *)
(* An exchange is two requests: a command, answered OK, and its payload,    *)
(* answered when it has been handled.  A server that still waits for the    *)
(* payload of a dead client takes the next command for it.  A request and   *)
(* its answer are one step.  No command code is a pathID of the configured  *)
(* tree, or the start of a key or a masked block (they are random).         *)
(*                                                                          *)
(* An epoch ends at pc = "evict"; evictions are in SecretSharedShuffle and  *)
(* ClientDuetORAM.  A word is a set of independent tokens (XorWords).       *)
(***************************************************************************)
EXTENDS DuetORAM, XorWords

CONSTANTS
    MaxUploads,     \* bound: IVs the client can draw
    Transmit        \* the answers to "TRANSMIT ... ? (y/n)": TRUE is y

ASSUME SessionAssumption ==
    /\ MaxUploads \in Nat
    /\ Transmit \subseteq BOOLEAN

VARIABLES
    pos_map,    \* the client's memory: path, position on it, and IVs of a block
    numRead,
    uploads,    \* IVs drawn so far
    request,    \* the block being accessed, and the shares of its position
    answer,     \* blocks_buffer_in: what the servers answered
    upload,     \* block_buffer_out: the masked block, its slot and its IVs
    thread,     \* the client's exchange with every server
    pc,
    saved,      \* the client's file
    disk,       \* the servers' buckets
    diskIv,     \* and the IVs stored with them
    key,        \* whether mask_key is the client's key
    phase,      \* the payload a server waits for, or "command"
    buffer,     \* block_buffer_in: the last upload
    cut         \* history: a client has died in an exchange that changes a
                \* server or in the write of its file, or a server has
                \* restarted under a client

client == <<pos_map, numRead, uploads, request, answer, upload, thread, pc>>
server == <<disk, diskIv, key, phase, buffer>>
vars   == <<client, saved, server, cut>>

Server == {0, 1}

\* pc: "load" while the keys are sent, "request" while a block is retrieved,
\* "upload" while it is put back, "save" before the file is opened, "write"
\* while it is written, "evict" when the root is full, "down" when no client
\* runs, "aborted" when the assertion on the retrieved block has failed,
\* "undefined" when load() has copied more than the file had.
PC == {"load", "menu", "request", "upload", "save", "write", "evict", "down",
       "aborted", "undefined"}

\* IVs: of the slot a block or a dummy is built in, and of the n-th upload.
BuiltIv(n, s) == <<0, n, s>>
DrawnIv(n)    == <<1, n, 0>>
IV == {BuiltIv(n, s) : n \in Node, s \in Slot} \cup {DrawnIv(n) : n \in 1 .. MaxUploads}

\* The words: the contents of a block, what AES-CTR makes of an IV under the
\* key of a server, and bytes that are none of these.
Plain(b)    == IF b = 0 THEN {} ELSE {<<0, b, 0, 0, 0>>}
Mask(s, iv) == {<<1, s, iv[1], iv[2], iv[3]>>}
Junk        == {<<2, 0, 0, 0, 0>>}
Masked(b, iv) == Xor(Plain(b), Xor(Mask(0, iv), Mask(1, iv)))

NoUpload == [slot |-> 0, word |-> Junk, iv |-> BuiltIv(0, 0)]
NoRequest == [blockID |-> 0, share |-> [s \in Server |-> {}]]
Threads(state) == [s \in Server |-> state]

Built == build([i \in 0 .. NUM_BLOCK - 1 |-> i + 1])

\* init(), and sendORAMTree() if the user wants it.
Init ==
    /\ pos_map = [b \in Block |->
                    [pathID  |-> Built[b].pathID,
                     pathIdx |-> Built[b].pathIdx,
                     iv      |-> BuiltIv(NodeOf(Built, b), SlotOf(Built, b))]]
    /\ numRead = 0 /\ uploads = 0
    /\ request = NoRequest
    /\ answer = [s \in Server |-> Junk]
    /\ upload = NoUpload
    /\ thread = Threads("off")
    /\ pc = "menu"
    /\ saved = [pos_map |-> pos_map, numRead |-> numRead, complete |-> TRUE]
    /\ diskIv = [srv \in Server |-> [n \in Node |-> [s \in Slot |-> BuiltIv(n, s)]]]
    /\ disk = [srv \in Server |-> [n \in Node |-> [s \in Slot |->
                 LET here == {b \in Block : pos_map[b].iv = BuiltIv(n, s)}
                 IN  Masked(IF here = {} THEN 0 ELSE CHOOSE b \in here : TRUE,
                            BuiltIv(n, s))]]]
    /\ \E sent \in Transmit : key = [s \in Server |-> sent]
    /\ phase = [s \in Server |-> "command"]
    /\ buffer = [s \in Server |-> NoUpload]
    /\ cut = FALSE

-----------------------------------------------------------------------------
(***************************************************************************)
(* The client.                                                              *)
(***************************************************************************)

\* Variant a run must reject: both servers are sent the same share.
SharedVectorSame(loc, r) == [s \in Server |-> r]

\* getLogicalVector and getSharedVector: a random vector, and its exclusive
\* or with the one that selects the block.
SharedVector(loc, r) == [s \in Server |-> IF s = 0 THEN r ELSE Xor(r, {loc})]

\* Steps 1 to 4 of access(): the request goes to both servers.
Request(b) ==
    /\ pc = "menu"
    /\ uploads < MaxUploads
    /\ \E r \in SUBSET PathIdx :
          request' = [blockID |-> b, share |-> SharedVector(pos_map[b].pathIdx, r)]
    /\ thread' = Threads("command")
    /\ pc' = "request"
    /\ UNCHANGED <<pos_map, numRead, uploads, answer, upload, saved, server, cut>>

\* Step 5: the answers and the masks of the block, all added up.
Recovered ==
    LET iv == pos_map[request.blockID].iv
    IN  Xor(Xor(answer[0], answer[1]), Xor(Mask(0, iv), Mask(1, iv)))

Joined == \A s \in Server : thread[s] = "done"

NextRead == (numRead + 1) % EVICT_RATE

\* Steps 6 to 8: the block is given a new path, fresh IVs and a root slot,
\* and its upload to both servers is started.
Recover(newLeaf) ==
    /\ pc = "request" /\ Joined
    /\ Recovered = Plain(request.blockID)
    /\ uploads' = uploads + 1
    /\ LET iv == DrawnIv(uploads')
       IN  /\ pos_map' = [pos_map EXCEPT ![request.blockID] =
                            [pathID |-> newLeaf, pathIdx |-> numRead, iv |-> iv]]
           /\ upload' = [slot |-> numRead, word |-> Masked(request.blockID, iv), iv |-> iv]
    /\ numRead' = NextRead
    /\ thread' = Threads("command")
    /\ pc' = "upload"
    /\ request' = NoRequest
    /\ answer' = [s \in Server |-> Junk]
    /\ UNCHANGED <<saved, server, cut>>

\* The assertion "RECEIEVED BLOCK IS NOT CORRECT" fails.
RecoverFails ==
    /\ pc = "request" /\ Joined
    /\ Recovered # Plain(request.blockID)
    /\ pc' = "aborted"
    /\ UNCHANGED <<pos_map, numRead, uploads, request, answer, upload, thread, saved, server, cut>>

\* Both uploads are acknowledged.
Uploaded ==
    /\ pc = "upload" /\ Joined
    /\ thread' = Threads("off")
    /\ pc' = IF numRead = 0 THEN "evict" ELSE "save"
    /\ UNCHANGED <<pos_map, numRead, uploads, request, answer, upload, saved, server, cut>>

\* Variant a run must reject: the file does not keep numRead.
LocalDataNoRead == [pos_map |-> pos_map, numRead |-> 0, complete |-> TRUE]

\* A file that is not complete lacks some of its bytes: its other fields are
\* then those of the file before it.
LocalData == [pos_map |-> pos_map, numRead |-> numRead, complete |-> TRUE]

\* Step 11: the file is opened, which cuts it to nothing ...
OpenFile ==
    /\ pc = "save"
    /\ saved' = [saved EXCEPT !.complete = FALSE]
    /\ pc' = "write"
    /\ UNCHANGED <<pos_map, numRead, uploads, request, answer, upload, thread, server, cut>>

\* ... and written.
Save ==
    /\ pc = "write"
    /\ saved' = LocalData
    /\ pc' = "menu"
    /\ UNCHANGED <<pos_map, numRead, uploads, request, answer, upload, thread, server, cut>>

\* load() reads the file and sends the keys, one server after the other.
Load ==
    /\ pc = "down" /\ saved.complete
    /\ pos_map' = saved.pos_map
    /\ numRead' = saved.numRead
    /\ thread' = [Threads("off") EXCEPT ![0] = "command"]
    /\ pc' = "load"
    /\ UNCHANGED <<uploads, request, answer, upload, saved, server, cut>>

\* The same of a file that is too short: load() copies from beyond the buffer.
LoadShort ==
    /\ pc = "down" /\ ~saved.complete
    /\ pc' = "undefined"
    /\ UNCHANGED <<pos_map, numRead, uploads, request, answer, upload, thread, saved, server, cut>>

LoadNext ==
    /\ pc = "load" /\ thread[0] = "done" /\ thread[1] = "off"
    /\ thread' = [thread EXCEPT ![1] = "command"]
    /\ UNCHANGED <<pos_map, numRead, uploads, request, answer, upload, pc, saved, server, cut>>

\* Variant a run must reject: the second server is not waited for.
KeysSentToOne == thread[0] = "done"

KeysSent == Joined

LoadDone ==
    /\ pc = "load" /\ KeysSent
    /\ thread' = Threads("off")
    /\ pc' = "menu"
    /\ UNCHANGED <<pos_map, numRead, uploads, request, answer, upload, saved, server, cut>>

-----------------------------------------------------------------------------
(***************************************************************************)
(* The exchanges.                                                           *)
(***************************************************************************)

\* The payload the command of the client announces.
Announced ==
    CASE pc = "load"    -> "key"
      [] pc = "request" -> "request"
      [] pc = "upload"  -> "block"

\* The buckets of the path to a leaf, as one vector.
PathVector(s, pathID) ==
    [k \in PathIdx |-> disk[s][FullPath[pathID][k \div BUCKET_SIZE]][k % BUCKET_SIZE]]

\* Variant a run must reject: the IV of the slot is left as it was.
StoredIvKept(s, up) == diskIv[s][0][up.slot]

\* The IV recvBlock stores with a block.
StoredIv(s, up) == up.iv

\* Variant a run must reject: server 1 is sent the slot after the next one has
\* been counted.
PayloadLate(s) == IF s = 1 THEN [upload EXCEPT !.slot = numRead] ELSE upload

\* The payload of an upload.
Payload(s) == upload

\* recvBlock: a block and its IV go to a slot of the root.
StoreBlock(s, up) ==
    /\ disk' = [disk EXCEPT ![s][0][up.slot] = up.word]
    /\ diskIv' = [diskIv EXCEPT ![s][0][up.slot] = StoredIv(s, up)]
    /\ buffer' = [buffer EXCEPT ![s] = up]

\* The command loop takes a command ...
TakeCommand(s) ==
    /\ thread[s] = "command" /\ phase[s] = "command"
    /\ phase' = [phase EXCEPT ![s] = Announced]
    /\ thread' = [thread EXCEPT ![s] = "payload"]
    /\ UNCHANGED <<pos_map, numRead, uploads, request, answer, upload, pc, saved,
                   disk, diskIv, key, buffer, cut>>

\* ... and the handler its payload: recvORAMKey, ...
TakeKey(s) ==
    /\ thread[s] = "payload" /\ phase[s] = "key"
    /\ key' = [key EXCEPT ![s] = TRUE]
    /\ phase' = [phase EXCEPT ![s] = "command"]
    /\ thread' = [thread EXCEPT ![s] = "done"]
    /\ UNCHANGED <<pos_map, numRead, uploads, request, answer, upload, pc, saved,
                   disk, diskIv, buffer, cut>>

\* ... retrieve, ...
TakeRequest(s) ==
    /\ thread[s] = "payload" /\ phase[s] = "request"
    /\ answer' = [answer EXCEPT ![s] =
                    XorSum(PathVector(s, pos_map[request.blockID].pathID), request.share[s])]
    /\ phase' = [phase EXCEPT ![s] = "command"]
    /\ thread' = [thread EXCEPT ![s] = "done"]
    /\ UNCHANGED <<pos_map, numRead, uploads, request, upload, pc, saved,
                   disk, diskIv, key, buffer, cut>>

\* ... recvBlock.
TakeBlock(s) ==
    /\ thread[s] = "payload" /\ phase[s] = "block"
    /\ StoreBlock(s, Payload(s))
    /\ phase' = [phase EXCEPT ![s] = "command"]
    /\ thread' = [thread EXCEPT ![s] = "done"]
    /\ UNCHANGED <<pos_map, numRead, uploads, request, answer, upload, pc, saved, key, cut>>

(***************************************************************************)
(* A command taken for the block or the key a dead client has not sent.     *)
(* Four bytes overwrite the start of the buffer, the rest is what was       *)
(* there: the last block that was uploaded is stored again with a broken    *)
(* start (any block, any slot, when nothing was uploaded), the key is       *)
(* broken.  The client takes the answer for the OK of its command.          *)
(***************************************************************************)
MistakeCommand(s) ==
    /\ thread[s] = "command" /\ phase[s] \in {"block", "key"}
    /\ IF phase[s] = "block"
       THEN \E slot \in IF buffer[s] = NoUpload THEN Slot ELSE {buffer[s].slot} :
                StoreBlock(s, [slot |-> slot, word |-> buffer[s].word \cup Junk,
                               iv |-> buffer[s].iv])
       ELSE UNCHANGED <<disk, diskIv, buffer>>
    /\ key' = [key EXCEPT ![s] = @ /\ phase[s] # "key"]
    /\ phase' = [phase EXCEPT ![s] = "command"]
    /\ thread' = [thread EXCEPT ![s] = "payload"]
    /\ UNCHANGED <<pos_map, numRead, uploads, request, answer, upload, pc, saved, cut>>

\* What a server that starts again has in its memory.
Restarted(s) ==
    /\ key' = [key EXCEPT ![s] = FALSE]
    /\ phase' = [phase EXCEPT ![s] = "command"]
    /\ buffer' = [buffer EXCEPT ![s] = NoUpload]
    /\ UNCHANGED <<disk, diskIv>>

\* A command taken for the path of a retrieval: no bucket of it has a file,
\* the server exits and is started again, the client is never answered.
MistakePath(s) ==
    /\ thread[s] = "command" /\ phase[s] = "request"
    /\ Restarted(s)
    /\ thread' = [thread EXCEPT ![s] = "lost"]
    /\ UNCHANGED <<pos_map, numRead, uploads, request, answer, upload, pc, saved, cut>>

\* A payload taken for a command, which the loop answers and ignores.
MistakePayload(s) ==
    /\ thread[s] = "payload" /\ phase[s] = "command"
    /\ thread' = [thread EXCEPT ![s] = "done"]
    /\ UNCHANGED <<pos_map, numRead, uploads, request, answer, upload, pc, saved, server, cut>>

-----------------------------------------------------------------------------
\* What is left when the client is gone.
Gone ==
    /\ pc' = "down"
    /\ thread' = Threads("off")
    /\ request' = NoRequest
    /\ answer' = [s \in Server |-> Junk]
    /\ upload' = NoUpload
    /\ UNCHANGED <<pos_map, numRead, uploads, saved, server>>

\* The client leaves, or dies with no upload and no key on its way.
Crash ==
    /\ \/ pc \in {"menu", "request", "save", "aborted"}
       \/ pc = "load" /\ \A s \in Server : phase[s] # "key"
    /\ Gone
    /\ UNCHANGED cut

\* The client dies while it uploads a block or a server waits for its key.
CrashInExchange ==
    /\ \/ pc = "upload"
       \/ pc = "load" /\ \E s \in Server : phase[s] = "key"
    /\ Gone
    /\ cut' = TRUE

\* The client dies while it writes its file.
CrashInWrite ==
    /\ pc = "write"
    /\ Gone
    /\ cut' = TRUE

\* A server restarts while no client runs ...
RestartAlone(s) ==
    /\ pc = "down"
    /\ Restarted(s)
    /\ UNCHANGED <<client, saved, cut>>

\* ... or between two accesses of one.
RestartServing(s) ==
    /\ pc = "menu"
    /\ Restarted(s)
    /\ cut' = TRUE
    /\ UNCHANGED <<client, saved>>

Exchange(s) ==
    \/ TakeCommand(s) \/ TakeKey(s) \/ TakeRequest(s) \/ TakeBlock(s)
    \/ MistakeCommand(s) \/ MistakePath(s) \/ MistakePayload(s)

Next ==
    \/ \E b \in Block : Request(b)
    \/ \E newLeaf \in Leaf : Recover(newLeaf)
    \/ RecoverFails
    \/ Uploaded \/ OpenFile \/ Save
    \/ Load \/ LoadShort \/ LoadNext \/ LoadDone
    \/ \E s \in Server : Exchange(s) \/ RestartAlone(s)
    \/ Crash

Spec == Init /\ [][Next]_vars

\* With the crashes the protocol does not survive.
CrashSpec ==
    Init /\ [][Next \/ CrashInExchange \/ CrashInWrite
                \/ \E s \in Server : RestartServing(s)]_vars
-----------------------------------------------------------------------------
Positions == [Block -> [pathID : Leaf, pathIdx : PathIdx, iv : IV]]
Token     == (0 .. 2) \X Nat \X Nat \X Nat \X Nat
Uploads   == [slot : Slot, word : SUBSET Token, iv : IV]

\* Every variable has its type.
TypeOK ==
    /\ pos_map \in Positions
    /\ numRead \in 0 .. EVICT_RATE - 1
    /\ uploads \in 0 .. MaxUploads
    /\ request \in [blockID : Block \cup {0}, share : [Server -> SUBSET PathIdx]]
    /\ answer \in [Server -> SUBSET Token]
    /\ upload \in Uploads
    /\ thread \in [Server -> {"off", "command", "payload", "done", "lost"}]
    /\ pc \in PC
    /\ saved \in [pos_map : Positions, numRead : 0 .. EVICT_RATE - 1, complete : BOOLEAN]
    /\ disk \in [Server -> [Node -> [Slot -> SUBSET Token]]]
    /\ diskIv \in [Server -> [Node -> [Slot -> IV]]]
    /\ key \in [Server -> BOOLEAN]
    /\ phase \in [Server -> {"command", "key", "request", "block"}]
    /\ buffer \in [Server -> Uploads]
    /\ cut \in BOOLEAN

\* The assertion of access(): a retrieved block is the one asked for.
AssertHolds == pc # "aborted"

\* It holds, whatever the random vector, as long as no client has died in an
\* exchange that changes a server and no server has restarted under a client:
\* the answers of the two servers add up to the block asked for.
AnswersAddUp == cut \/ AssertHolds

\* Then the two copies differ in nothing either, unless an upload is on its
\* way: one slot that differs on a path is enough to garble every block of it.
CopiesAgree ==
    pc # "upload" /\ ~cut => disk[0] = disk[1] /\ diskIv[0] = diskIv[1]

\* In the slot a position map names for a block, both servers have that block
\* under the IVs of the map, and these IVs on file: the masks an eviction
\* takes off are the ones the upload put on.
FitsOn(s, map, b) ==
    /\ disk[s][NodeOf(map, b)][SlotOf(map, b)] = Masked(b, map[b].iv)
    /\ diskIv[s][NodeOf(map, b)][SlotOf(map, b)] = map[b].iv
Fits(map) == \A s \in Server : \A b \in Block : FitsOn(s, map, b)

MemoryFits == pc \in {"menu", "request", "save", "write", "evict"} /\ ~cut => Fits(pos_map)

\* The same for the client that comes back from its file, at any moment but
\* those in which the file is being written: it is there to its last
\* byte, and fits, unless a client has died in this write, or cut is set by an
\* exchange or a restart.
FileFits == ~cut /\ pc # "write" => saved.complete /\ Fits(saved.pos_map)

\* An eviction finds on both servers the keys of the client.
KeysKnown == pc = "evict" => \A s \in Server : key[s]

\* It does if the client has sent its keys and nothing was cut off since.
KeysKept == cut \/ KeysKnown

\* Even with every crash, a server spoils the copy it has of a block only when
\* it takes a command for the block of a dead client, and only where that
\* server put the last upload it got, if it got one.
DamageConfined ==
    [][\A s \in Server : \A b \in Block :
         FitsOn(s, saved.pos_map, b) /\ saved' = saved =>
            \/ FitsOn(s, saved.pos_map, b)'
            \/ /\ phase[s] = "block" /\ thread[s] = "command"
               /\ buffer[s] # NoUpload => saved.pos_map[b].pathIdx = buffer[s].slot]_vars

\* When load() is through, every server waits for a command again.
Resynchronised == pc = "menu" => \A s \in Server : phase[s] = "command"
-----------------------------------------------------------------------------
(***************************************************************************)
(* Why these properties hold: the inductive invariant.                      *)
(***************************************************************************)
Busy == {"load", "request", "upload"}

\* A server is where the exchange of the client has it, but for what a dead
\* client left it waiting for, which load() takes it out of.
PhaseInv ==
    \A s \in Server :
        /\ pc \in {"menu", "save", "write", "evict", "aborted"} => phase[s] = "command"
        /\ pc \notin Busy => thread[s] \notin {"command", "payload"}
        /\ pc \in {"request", "upload"} =>
              /\ thread[s] \in {"command", "payload", "done"}
              /\ phase[s] = IF thread[s] = "payload" THEN Announced ELSE "command"
        /\ pc = "load" =>
              /\ thread[s] = "payload" => phase[s] \in {"command", "key"}
              /\ thread[s] \in {"done", "lost"} => phase[s] = "command"

\* The root slots from the n-th on are those of no block.
RootFree(map, n) ==
    \A b \in Block : map[b].pathIdx \div BUCKET_SIZE = 0 => map[b].pathIdx < n

\* The position map of the file with block b in its next root slot.
Moved(b, leaf) ==
    [saved.pos_map EXCEPT ![b] = [pathID  |-> leaf,
                                  pathIdx |-> saved.numRead,
                                  iv      |-> DrawnIv(uploads)]]

\* The client is at most one access ahead of its file, and this access takes
\* a root slot the file has no block in.
ClientInv ==
    /\ RootFree(saved.pos_map, saved.numRead)
    /\ pc \in {"load", "menu", "request", "aborted"} =>
          pos_map = saved.pos_map /\ numRead = saved.numRead
    /\ pc \in {"upload", "save", "write", "evict"} =>
          /\ uploads >= 1
          /\ numRead = (saved.numRead + 1) % EVICT_RATE
          /\ \E b \in Block, leaf \in Leaf :
                /\ pos_map = Moved(b, leaf)
                /\ pc = "upload" =>
                      upload = [slot |-> saved.numRead,
                                word |-> Masked(b, DrawnIv(uploads)),
                                iv   |-> DrawnIv(uploads)]
    /\ pc \in {"save", "write"} => numRead # 0
    /\ pc = "request" =>
          /\ uploads < MaxUploads
          /\ request.blockID \in Block
          /\ request.share[1] =
                Xor(request.share[0], {pos_map[request.blockID].pathIdx})

\* Unless something was cut off: nobody waits for a dead client's block or key,
\* the copies fit the file and differ in the upload at most, and a server has
\* answered with the sum it was asked for.
CopyInv ==
    ~cut =>
        /\ pc # "write" => saved.complete
        /\ Fits(saved.pos_map)
        /\ pc \in {"save", "write", "evict"} => Fits(pos_map)
        /\ \A n \in Node, slot \in Slot :
              (pc = "upload" => <<n, slot>> # <<0, upload.slot>>) =>
                  /\ disk[0][n][slot] = disk[1][n][slot]
                  /\ diskIv[0][n][slot] = diskIv[1][n][slot]
        /\ \A s \in Server :
              /\ phase[s] = "block" => pc = "upload" /\ thread[s] = "payload"
              /\ phase[s] = "key" => pc = "load" /\ thread[s] = "payload"
              /\ pc = "load" /\ thread[s] = "payload" => phase[s] = "key"
              /\ pc = "upload" /\ thread[s] = "done" =>
                    /\ disk[s][0][upload.slot] = upload.word
                    /\ diskIv[s][0][upload.slot] = upload.iv
              /\ pc = "request" /\ thread[s] = "done" =>
                    answer[s] = XorSum(PathVector(s, pos_map[request.blockID].pathID),
                                       request.share[s])
        /\ pc # "aborted"

\* All of it, whatever crashes.
SessionInv == TypeOK /\ PhaseInv /\ ClientInv /\ CopyInv

\* The servers have the keys once they were sent, if nothing was cut off.
KeyInv ==
    ~cut => \A s \in Server :
        (pc = "load" => thread[s] = "done") /\ pc # "down" => key[s]
=============================================================================
