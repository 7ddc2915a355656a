---------------------------- MODULE MCStmFirmware ----------------------------
(***************************************************************************)
(* Small instances of the STM32F042 firmware: two lanes on the ring, room  *)
(* for two lanes of a transmission and three of them to send.              *)
(***************************************************************************)
EXTENDS StmFirmware
=============================================================================
