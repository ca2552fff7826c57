---------------------------- MODULE MCInboundEvents ----------------------------
(* Instances of InboundEvents for TLC. *)
EXTENDS InboundEvents
=============================================================================
