--------------------------- MODULE MCDaemonDispatch ---------------------------
(* Instances of DaemonDispatch for TLC. *)
EXTENDS DaemonDispatch, TLC

AnyDispatch == Permutations(Dispatches)
=============================================================================
