--------------------------- MODULE MCRetransmitter ---------------------------
(* Retransmitter for TLC: a small buffer and short timeouts.               *)
EXTENDS Retransmitter

AnyFailure == {"isr", "task"}
NoFailure == {}
=============================================================================
