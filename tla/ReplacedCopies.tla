--------------------------- MODULE ReplacedCopies ---------------------------
(***************************************************************************)
(* What an eviction promises the client: each server replaces its copy of   *)
(* the path by one and the same vector, in one step and once, and tells the *)
(* client only afterwards; and both do.  (CMD_SEND_EVICT of                 *)
(* ClientDuetORAM::access, seen from the client.)                           *)
(***************************************************************************)
EXTENDS Integers

VARIABLES
    target,     \* the new vector
    copy,       \* copy[s]: what server s stores
    state       \* state[s]: "asked", "replaced" or "acknowledged"

vars == <<target, copy, state>>

Server == {0, 1}

Init == state = [s \in Server |-> "asked"]

Replace(s) ==
    /\ state[s] = "asked"
    /\ copy' = [copy EXCEPT ![s] = target]
    /\ state' = [state EXCEPT ![s] = "replaced"]
    /\ UNCHANGED target

Acknowledge(s) ==
    /\ state[s] = "replaced"
    /\ state' = [state EXCEPT ![s] = "acknowledged"]
    /\ UNCHANGED <<target, copy>>

Next == \E s \in Server : Replace(s) \/ Acknowledge(s)

Spec == Init /\ [][Next]_vars /\ WF_vars(Next)
=============================================================================
