--------------------------- MODULE MCDaemonStream ---------------------------
(* Instances of DaemonStream for TLC. *)
EXTENDS DaemonStream, TLC

\* One event of each kind that the properties tell apart.
Status    == [type |-> "status", bytes |-> 1]
Completed == [type |-> "completed", bytes |-> 1]
BigOutput == [type |-> "stdout", bytes |-> 4]
BigStatus == [type |-> "status", bytes |-> 4]
\* Fits a frame (16 MB) but not an empty replay buffer (5 MB).
LargeOut  == [type |-> "stdout", bytes |-> 3]
Failed    == [type |-> "failed", bytes |-> 1]

PlainEvents == {Status, Completed}
\* Truncated, replaced by a failure, too large for the buffer.
LimitEvents == {Completed, BigOutput, BigStatus, LargeOut}

SocketSymmetry == Permutations(Sockets)
=============================================================================
