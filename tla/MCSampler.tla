------------------------------- MODULE MCSampler -------------------------------
(* The sampler for model checking.                                         *)
EXTENDS Sampler

CONSTANT ble
=============================================================================
