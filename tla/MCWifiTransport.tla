---------------------------- MODULE MCWifiTransport ----------------------------
(***************************************************************************)
(* Small instances of the Wi-Fi transport: two clients, four events that   *)
(* wait and two tasks that sleep.                                          *)
(***************************************************************************)
EXTENDS WifiTransport
=============================================================================
