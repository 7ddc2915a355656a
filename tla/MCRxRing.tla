------------------------------ MODULE MCRxRing ------------------------------
(* RxRing for TLC: short lanes, a small ring and bytes of three bits.        *)
EXTENDS RxRing
=============================================================================
