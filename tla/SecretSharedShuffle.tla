------------------------ MODULE SecretSharedShuffle ------------------------
(***************************************************************************)
(* One eviction on the two servers: the client hands out the matrices and   *)
(* the shares of the permutation (ClientDuetORAM::access, steps 9.1 to      *)
(* 9.5), the servers shuffle the SIZE_PI blocks of the path without seeing  *)
(* the permutation (SecretSharedShuffle::secretShare) and exchange the      *)
(* results, so that both end up with the same copy (ServerDuetORAM::evict). *)
(*                                                                          *)
(* A block is one word: the chunks of a block go through the same steps.    *)
(* A matrix is seen after the expansion of its seeds.  Matrix s is the one  *)
(* server s gets punctured (key3's for server 0, key4's for server 1): the  *)
(* other server gets its seed.  The command that precedes every request of  *)
(* the client, and its OK, are one message with the request.                *)
(***************************************************************************)
EXTENDS ShuffleMatrices

VARIABLES
    \* chosen by the client for this eviction, and never changed
    evict_pi,   \* the permutation: new entry i is old entry evict_pi[i]
    sub_pi,     \* its two shares
    u,          \* u[s][i]: the column punctured in row i of matrix s
    random,     \* the two matrices the keys expand to
    newStream,  \* the masks of the IVs drawn from seed_iv
    plain,      \* the blocks of the path
    \* the servers' disks
    stored,     \* the masked blocks of the path
    keystream,  \* the masks of the IVs stored with them
    \* the servers' memory
    full,       \* fullPermutation
    punctured,  \* receivedPuncturedPermutation
    vec,        \* evict_vector_for_shuffle
    a, b, delta,
    xored,      \* dot_product_vector_xored
    received,   \* path_vector_in_for_identical_copy
    \* control
    net,        \* messages on their way
    ct,         \* the client's thread for each server
    pc,         \* the servers' main threads
    sender,     \* their sending and
    listener    \* listening threads

chosen  == <<evict_pi, sub_pi, u, random, newStream, plain>>
disk    == <<stored, keystream>>
memory  == <<full, punctured, vec, a, b, delta, xored, received>>
threads == <<pc, sender, listener>>
vars    == <<chosen, disk, memory, net, ct, threads>>

NoVector == [i \in Index |-> {}]
NoMatrix == [i \in Index |-> NoVector]

\* "to" is the server a message is for; an answer to the client carries the
\* server it comes from.
Message(to, type, body) == [to |-> to, type |-> type, body |-> body]

-----------------------------------------------------------------------------
\* Variant a run must reject: the last entry is forgotten.
SecondShareShort(pi, pi_1) ==
    [i \in Index |-> IF i = SIZE_PI - 1 THEN 0 ELSE CHOOSE j \in Index : pi_1[j] = pi[i]]

\* createSubPermutation: sub_pi[1] = the inverse of sub_pi[0] after evict_pi.
SecondShare(pi, pi_1) ==
    [i \in Index |-> CHOOSE j \in Index : pi_1[j] = pi[i]]

\* The circular shifts that move a punctured column to its place.
CircularShift(p, v) == [i \in Index |-> (p[i] - v[i] + SIZE_PI) % SIZE_PI]

\* initialize(): in every row i, the entry of column v[i] becomes zero_block.
Puncture(m, v) ==
    [i \in Index |-> [j \in Index |-> IF j = v[i] THEN Zero ELSE m[i][j]]]

\* Variant a run must reject: the received vector is not permuted.
LocalFuncInPlace(p, d, v, w) == [i \in Index |-> Xor(d[i], Xor(v[i], w[p[i]]))]

\* thread_dotProduct_mask_func and thread_dotProduct_local_func.
MaskFunc(v, w) == XorVector(v, w)
LocalFunc(p, d, v, w) == [i \in Index |-> Xor(d[i], Xor(v[p[i]], w[p[i]]))]

\* Variant a run must reject: server 1 leaves its blocks out.
ShuffleInputMasksOnly(s) == keystream[s]

\* What server s has in the vector before the shuffle: server 0 its masks,
\* server 1 its masks and the masked blocks.
ShuffleInput(s) ==
    IF s = 0 THEN keystream[0] ELSE XorVector(keystream[1], stored[1])

-----------------------------------------------------------------------------
Init ==
    /\ evict_pi \in Permutation
    /\ \E pi_1 \in Permutation :
          sub_pi = [s \in Server |-> IF s = 0 THEN pi_1
                                              ELSE SecondShare(evict_pi, pi_1)]
    /\ u \in [Server -> Shift]
    /\ random \in [Server -> Matrix]
    /\ newStream \in [Server -> Vector]
    /\ plain \in Vector
    /\ keystream \in [Server -> Vector]
    \* The copy of server 0 is not read: it may be behind the one of server 1
    \* (an upload that reached only one of them).
    /\ stored \in [Server -> Vector]
    /\ stored[1] = XorVector(plain, XorVector(keystream[0], keystream[1]))
    /\ full = [s \in Server |-> NoMatrix]
    /\ punctured = [s \in Server |-> NoMatrix]
    /\ vec = [s \in Server |-> NoVector]
    /\ a = vec /\ b = vec /\ delta = vec /\ xored = vec /\ received = vec
    /\ net = {}
    /\ ct = [s \in Server |-> "init"]
    /\ pc = [s \in Server |-> "loop"]
    /\ sender = [s \in Server |-> "off"]
    /\ listener = [s \in Server |-> "off"]

Receive(s, type, body) == Message(s, type, body) \in net

\* A message is taken from the network, others are put there.
Reply(taken, sent) == net' = (net \ {taken}) \cup sent

-----------------------------------------------------------------------------
(***************************************************************************)
(* The client.  sendInitialPermutation serves one server after the other;   *)
(* the two threads of step 9.5 start when it is done.                       *)
(***************************************************************************)
ClientSendInit(s) ==
    /\ ct[s] = "init"
    /\ s = 1 => ct[0] = "ready"
    /\ net' = net \cup {Message(s, "init", NoVector)}
    /\ ct' = [ct EXCEPT ![s] = "initWait"]
    /\ UNCHANGED <<chosen, disk, memory, threads>>

ClientInitAck(s) ==
    /\ ct[s] = "initWait"
    /\ Receive(s, "initOk", NoVector)
    /\ Reply(Message(s, "initOk", NoVector), {})
    /\ ct' = [ct EXCEPT ![s] = "ready"]
    /\ UNCHANGED <<chosen, disk, memory, threads>>

ClientSendEvict(s) ==
    /\ ct[s] = "ready"
    /\ \A t \in Server : ct[t] \notin {"init", "initWait"}
    /\ net' = net \cup {Message(s, "evict", NoVector)}
    /\ ct' = [ct EXCEPT ![s] = "evictWait"]
    /\ UNCHANGED <<chosen, disk, memory, threads>>

ClientEvictAck(s) ==
    /\ ct[s] = "evictWait"
    /\ Receive(s, "evictOk", NoVector)
    /\ Reply(Message(s, "evictOk", NoVector), {})
    /\ ct' = [ct EXCEPT ![s] = "done"]
    /\ UNCHANGED <<chosen, disk, memory, threads>>

-----------------------------------------------------------------------------
\* recvInitialPermutation and generatePermutationOffline.
RecvInit(s) ==
    /\ pc[s] = "loop"
    /\ Receive(s, "init", NoVector)
    /\ Reply(Message(s, "init", NoVector), {Message(s, "initOk", NoVector)})
    /\ full' = [full EXCEPT ![s] = random[Other(s)]]
    /\ punctured' = [punctured EXCEPT ![s] = Puncture(random[s], u[s])]
    /\ UNCHANGED <<chosen, disk, vec, a, b, delta, xored, received, ct, threads>>

\* evict() up to the call of secretShare.
RecvEvict(s) ==
    /\ pc[s] = "loop"
    /\ Receive(s, "evict", NoVector)
    /\ Reply(Message(s, "evict", NoVector), {})
    /\ vec' = [vec EXCEPT ![s] = ShuffleInput(s)]
    /\ full' = [full EXCEPT ![s] =
                   Rotate(@, CircularShift(sub_pi[Other(s)], u[Other(s)]))]
    /\ punctured' = [punctured EXCEPT ![s] =
                        Rotate(@, CircularShift(sub_pi[s], u[s]))]
    /\ a' = [a EXCEPT ![s] = ColumnSums(full'[s])]
    /\ b' = [b EXCEPT ![s] = RowSums(full'[s])]
    /\ delta' = [delta EXCEPT ![s] =
                    [i \in Index |-> Xor(RowSum(punctured'[s], i),
                                         ColumnSum(punctured'[s], sub_pi[s][i]))]]
    /\ pc' = [pc EXCEPT ![s] = "share"]
    /\ UNCHANGED <<chosen, disk, xored, received, ct, sender, listener>>

\* secretShare on server 1 asks first ...
ShareCmd ==
    /\ pc[1] = "share"
    /\ net' = net \cup {Message(0, "CMD_SHARE", NoVector)}
    /\ pc' = [pc EXCEPT ![1] = "asked"]
    /\ UNCHANGED <<chosen, disk, memory, ct, sender, listener>>

ShareOk ==
    /\ pc[0] = "share"
    /\ Receive(0, "CMD_SHARE", NoVector)
    /\ Reply(Message(0, "CMD_SHARE", NoVector), {Message(1, "OK", NoVector)})
    /\ pc' = [pc EXCEPT ![0] = "masked"]
    /\ UNCHANGED <<chosen, disk, memory, ct, sender, listener>>

\* ... then sends its masked vector ...
SendMasked ==
    /\ pc[1] = "asked"
    /\ Receive(1, "OK", NoVector)
    /\ Reply(Message(1, "OK", NoVector),
             {Message(0, "masked", MaskFunc(a[1], vec[1]))})
    /\ pc' = [pc EXCEPT ![1] = "local"]
    /\ UNCHANGED <<chosen, disk, memory, ct, sender, listener>>

\* ... which server 0 permutes and masks in turn ...
SendLocal ==
    /\ pc[0] = "masked"
    /\ \E m \in net :
        /\ m.to = 0 /\ m.type = "masked"
        /\ Reply(m, {Message(1, "local",
                        MaskFunc(a[0], LocalFunc(sub_pi[0], delta[0], m.body, vec[0])))})
    /\ pc' = [pc EXCEPT ![0] = "finish"]
    /\ UNCHANGED <<chosen, disk, memory, ct, sender, listener>>

\* The result of server s under its new masks, and the threads that exchange
\* it with the other server.
StartExchange(s, result) ==
    /\ xored' = [xored EXCEPT ![s] = XorVector(result, newStream[s])]
    /\ pc' = [pc EXCEPT ![s] = "exchange"]
    /\ sender' = [sender EXCEPT ![s] = "send"]
    /\ listener' = [listener EXCEPT ![s] = "recv"]

\* ... for server 1 to permute by its own share.
FinishShare1 ==
    /\ pc[1] = "local"
    /\ \E m \in net :
        /\ m.to = 1 /\ m.type = "local"
        /\ Reply(m, {Message(0, "finished", NoVector)})
        /\ StartExchange(1, LocalFunc(sub_pi[1], delta[1], m.body, b[1]))
    /\ UNCHANGED <<chosen, disk, full, punctured, vec, a, b, delta, received, ct>>

FinishShare0 ==
    /\ pc[0] = "finish"
    /\ Receive(0, "finished", NoVector)
    /\ Reply(Message(0, "finished", NoVector), {})
    /\ StartExchange(0, b[0])
    /\ UNCHANGED <<chosen, disk, full, punctured, vec, a, b, delta, received, ct>>

-----------------------------------------------------------------------------
\* Variant a run must reject: a server sends when it has received.
SenderAfterListener(s) == sender[s] = "send" /\ listener[s] = "done"

\* The sending and the listening thread.
SenderReady(s) == sender[s] = "send"

SendVector(s) ==
    /\ SenderReady(s)
    /\ net' = net \cup {Message(Other(s), "vector", xored[s])}
    /\ sender' = [sender EXCEPT ![s] = "wait"]
    /\ UNCHANGED <<chosen, disk, memory, ct, pc, listener>>

ReceiveVector(s) ==
    /\ listener[s] = "recv"
    /\ \E m \in net :
        /\ m.to = s /\ m.type = "vector"
        /\ received' = [received EXCEPT ![s] = m.body]
        /\ Reply(m, {Message(Other(s), "vectorOk", NoVector)})
    /\ listener' = [listener EXCEPT ![s] = "done"]
    /\ UNCHANGED <<chosen, disk, full, punctured, vec, a, b, delta, xored, ct, pc, sender>>

VectorAck(s) ==
    /\ sender[s] = "wait"
    /\ Receive(s, "vectorOk", NoVector)
    /\ Reply(Message(s, "vectorOk", NoVector), {})
    /\ sender' = [sender EXCEPT ![s] = "done"]
    /\ UNCHANGED <<chosen, disk, memory, ct, pc, listener>>

\* Variants a run must reject: only one of the two threads is joined.
JoinedListener(s) == listener[s] = "done"
JoinedSender(s) == sender[s] = "done"

\* The main thread joins both, combines the two results (in place), writes
\* the buckets and the IVs, and acknowledges the eviction.
Joined(s) == sender[s] = "done" /\ listener[s] = "done"

WriteBack(s) ==
    /\ pc[s] = "exchange"
    /\ Joined(s)
    /\ xored' = [xored EXCEPT ![s] = XorVector(@, received[s])]
    /\ stored' = [stored EXCEPT ![s] = xored'[s]]
    /\ keystream' = [keystream EXCEPT ![s] = newStream[s]]
    /\ net' = net \cup {Message(s, "evictOk", NoVector)}
    /\ pc' = [pc EXCEPT ![s] = "loop"]
    /\ sender' = [sender EXCEPT ![s] = "off"]
    /\ listener' = [listener EXCEPT ![s] = "off"]
    /\ UNCHANGED <<chosen, full, punctured, vec, a, b, delta, received, ct>>

Done == \A s \in Server : ct[s] = "done"

Finished == Done /\ UNCHANGED vars

ClientStep(s) ==
    \/ ClientSendInit(s) \/ ClientInitAck(s)
    \/ ClientSendEvict(s) \/ ClientEvictAck(s)

ServerStep(s) ==
    \/ RecvInit(s) \/ RecvEvict(s) \/ WriteBack(s)
    \/ SendVector(s) \/ ReceiveVector(s) \/ VectorAck(s)

ShareStep ==
    \/ ShareCmd \/ ShareOk \/ SendMasked \/ SendLocal
    \/ FinishShare1 \/ FinishShare0

Next ==
    \/ \E s \in Server : ClientStep(s) \/ ServerStep(s)
    \/ ShareStep
    \/ Finished

\* Every thread that can go on does, and what is sent arrives (ZeroMQ over
\* TCP, between processes that stay up).
Fairness ==
    /\ \A s \in Server : WF_vars(ClientStep(s)) /\ WF_vars(ServerStep(s))
    /\ WF_vars(ShareStep)

Spec == Init /\ [][Next]_vars /\ Fairness
-----------------------------------------------------------------------------
ServerPC == {"loop", "share", "asked", "masked", "local", "finish", "exchange"}
MessageType == {"init", "initOk", "evict", "evictOk", "CMD_SHARE", "OK", "masked",
                "local", "finished", "vector", "vectorOk"}

\* Every variable has its type.
TypeOK ==
    /\ evict_pi \in Permutation
    /\ sub_pi \in [Server -> Permutation]
    /\ u \in [Server -> Shift]
    /\ random \in [Server -> Matrix]
    /\ newStream \in [Server -> Vector]
    /\ plain \in Vector
    /\ stored \in [Server -> Vector]
    /\ keystream \in [Server -> Vector]
    /\ full \in [Server -> Matrix]
    /\ punctured \in [Server -> Matrix]
    /\ vec \in [Server -> Vector]
    /\ a \in [Server -> Vector] /\ b \in [Server -> Vector]
    /\ delta \in [Server -> Vector]
    /\ xored \in [Server -> Vector] /\ received \in [Server -> Vector]
    /\ net \subseteq [to : Server, type : MessageType, body : Vector]
    /\ ct \in [Server -> {"init", "initWait", "ready", "evictWait", "done"}]
    /\ pc \in [Server -> ServerPC]
    /\ sender \in [Server -> {"off", "send", "wait", "done"}]
    /\ listener \in [Server -> {"off", "recv", "done"}]

\* The vector every server is to end up with: the blocks of the path in the
\* order of evict_pi, under the new masks of both servers.
Shuffled ==
    [i \in Index |-> Xor(plain[evict_pi[i]], Xor(newStream[0][i], newStream[1][i]))]

-----------------------------------------------------------------------------
(***************************************************************************)
(* Why it works: an inductive invariant.                                    *)
(***************************************************************************)

\* Server s has the request of the client; it has left secretShare.
Begun(s)  == /\ ct[s] \in {"evictWait", "done"}
             /\ Message(s, "evict", NoVector) \notin net
Shared(s) == Begun(s) /\ pc[s] \in {"exchange", "loop"}

\* The matrices of server s are those of this eviction, not yet rotated.
Loaded(s) == /\ full[s] = random[Other(s)]
             /\ punctured[s] = Puncture(random[s], u[s])

\* Matrix s after its rotation, its sums, and the correction of server s.
Rotated(s) == Rotate(random[s], CircularShift(sub_pi[s], u[s]))
SumA(s)    == ColumnSums(Rotated(Other(s)))
SumB(s)    == RowSums(Rotated(Other(s)))
DeltaOf(s) == [i \in Index |-> Xor(SumB(Other(s))[i], SumA(Other(s))[sub_pi[s][i]])]

\* What server s holds in the vector, and what it sends to the other one.
Share(s)  == IF Begun(s) THEN vec[s] ELSE ShuffleInput(s)
Result(s) ==
    [i \in Index |->
        Xor(IF s = 0 THEN SumB(0)[i] ELSE Xor(SumB(0)[i], plain[evict_pi[i]]),
            newStream[s][i])]
LocalBody == [i \in Index |-> Xor(SumA(0)[i], Xor(SumB(1)[i], plain[sub_pi[0][i]]))]

\* A message tells where its sender and its receiver are, and what it carries.
MessageInv(m) ==
    /\ m.type = "init" => ct[m.to] = "initWait"
    /\ m.type = "initOk" => /\ ct[m.to] = "initWait" /\ Loaded(m.to)
                            /\ Message(m.to, "init", NoVector) \notin net
    /\ m.type = "evict" => /\ ct[m.to] = "evictWait" /\ pc[m.to] = "loop"
                           /\ Loaded(m.to)
    /\ m.type = "evictOk" => /\ ct[m.to] = "evictWait" /\ pc[m.to] = "loop"
                             /\ Begun(m.to)
    /\ m.type = "CMD_SHARE" => m.to = 0 /\ pc[1] = "asked"
    /\ m.type = "OK" => /\ m.to = 1 /\ pc[1] = "asked" /\ pc[0] = "masked"
                        /\ Message(0, "CMD_SHARE", NoVector) \notin net
    /\ m.type = "masked" => /\ m.to = 0 /\ pc[1] = "local" /\ pc[0] = "masked"
                            /\ m.body = MaskFunc(SumA(1), vec[1])
    /\ m.type = "local" => /\ m.to = 1 /\ pc[1] = "local" /\ pc[0] = "finish"
                           /\ m.body = LocalBody
    /\ m.type = "finished" => m.to = 0 /\ pc[0] = "finish" /\ Shared(1)
    /\ m.type = "vector" => /\ Shared(Other(m.to)) /\ sender[Other(m.to)] = "wait"
                            /\ m.body = Result(Other(m.to))
    /\ m.type = "vectorOk" => /\ sender[m.to] = "wait"
                              /\ \A v \in net : v.type = "vector" => v.to = m.to
    /\ m.type \notin {"masked", "local", "vector"} => m.body = NoVector

ServerInv(s) ==
    /\ ct[s] = "ready" => Loaded(s)
    /\ pc[s] # "loop" => ct[s] = "evictWait" /\ Begun(s)
    /\ sender[s] # "off" => pc[s] = "exchange"
    /\ listener[s] # "off" => pc[s] = "exchange"
    /\ Begun(s) => a[s] = SumA(s) /\ b[s] = SumB(s) /\ delta[s] = DeltaOf(s)
    /\ pc[s] = "exchange" => xored[s] = Result(s)
    /\ listener[s] = "done" => Shared(Other(s)) /\ received[s] = Result(Other(s))
    /\ Begun(s) /\ pc[s] = "loop" => stored[s] = Shuffled /\ keystream[s] = newStream[s]

\* Every message in flight and every server is as the protocol has it, the two
\* shares of the vector add up to the blocks of the path whatever the two
\* servers have done so far, and the shares of the permutation compose to it.
ShuffleInv ==
    /\ \A m \in net : MessageInv(m)
    /\ \A s \in Server : ServerInv(s)
    /\ XorVector(Share(0), Share(1)) = plain
    /\ \A i \in Index : sub_pi[0][sub_pi[1][i]] = evict_pi[i]

-----------------------------------------------------------------------------
(***************************************************************************)
(* The eviction implements ReplacedCopies: a server writes its copy once,   *)
(* with the shuffled blocks, before it acknowledges, however the steps of   *)
(* the two servers and of their threads interleave; and both servers do.    *)
(***************************************************************************)
ReplyState ==
    [s \in Server |->
        IF ct[s] = "done" THEN "acknowledged"
        ELSE IF Message(s, "evictOk", NoVector) \in net THEN "replaced"
        ELSE "asked"]

Replaced == INSTANCE ReplacedCopies
                WITH target <- Shuffled, copy <- stored, state <- ReplyState

CopiesReplaced == Replaced!Spec

\* When the client has both acknowledgements, the two copies are identical
\* (retrieval depends on it), hold every block of the path once, in the order
\* of evict_pi, and are masked as the client expects.
CopiesIdentical ==
    Done => /\ stored[0] = stored[1]
            /\ \A s \in Server : \A i \in Index :
                   Xor(stored[s][i], Xor(keystream[0][i], keystream[1][i]))
                     = plain[evict_pi[i]]

\* The correction a server computes from its punctured matrix and its share
\* of the permutation is the one between the other server's row and column
\* sums, although neither server knows both.
DeltaCorrect ==
    \A s \in Server :
        pc[s] \notin {"loop"} /\ pc[Other(s)] # "loop" =>
            \A i \in Index :
                delta[s][i] = Xor(b[Other(s)][i], a[Other(s)][sub_pi[s][i]])

\* An eviction leaves no message behind for the next one to mistake.
NothingLeftOver == Done => net = {}

\* The eviction completes: servers and threads never all wait for each other.
EvictionCompletes == <>Done
=============================================================================
