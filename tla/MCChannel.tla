------------------------------- MODULE MCChannel -------------------------------
(* Model checking of Channel; the bounds are in the .cfg files.            *)
EXTENDS Channel
=============================================================================
