-------------------------- MODULE MCWaitingContract --------------------------
(* Instances of WaitingContract for TLC. *)
EXTENDS WaitingContract
=============================================================================
