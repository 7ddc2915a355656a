------------------------------- MODULE MCEsp8266 -------------------------------
(***************************************************************************)
(* A small instance of the ESP8266's network side: a descriptor for the    *)
(* listener and one for the client, and two tasks that sleep.              *)
(***************************************************************************)
EXTENDS Esp8266
=============================================================================
