-------------------------- MODULE MCComputeThreads --------------------------
(***************************************************************************)
(* ComputeThreads for TLC: answers to the prompt on both sides of what it   *)
(* accepts.                                                                 *)
(***************************************************************************)
EXTENDS ComputeThreads

MCAnswers == {-16, -3, 0, 1, 2, 3, 4, 5, 6, 9}
=============================================================================
