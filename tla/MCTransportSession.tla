-------------------------- MODULE MCTransportSession --------------------------
(* The transport session for model checking.                               *)
EXTENDS TransportSession, TLC

CONSTANTS usb, ble, wifi

Transports == Permutations(Source)
=============================================================================
