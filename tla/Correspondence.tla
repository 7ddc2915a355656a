---------------------------- MODULE Correspondence ----------------------------
(***************************************************************************)
(* What a command channel promises to the one who uses it: after a command *)
(* there is at most one answer, and it is the answer to that command.  A   *)
(* host that has given up on an older command is promised that only for a  *)
(* command it sends when nothing of the older one is left.                 *)
(*                                                                         *)
(* The hosts rely on it.  sendCommand (USBManager.swift), sendCommand of   *)
(* DeviceBufferSession.swift and send_command (command.rs) match nothing:  *)
(* they take the next answer that arrives for the answer to the command    *)
(* they sent last.                                                         *)
(***************************************************************************)
EXTENDS Naturals

VARIABLES
  asked,     (* the number of the last command, another than the one       *)
             (* before                                                     *)
  waiting,   (* the number of the command the host waits for, 0 if none    *)
  answered,  (* the number of the command whose answer came last; 0 since  *)
             (* the next was sent, until its own comes                     *)
  crowded    (* the channel has more than that command, or its answer: of  *)
             (* an older one on which the host has given up, or twice      *)

vars == <<asked, waiting, answered, crowded>>

Init ==
  /\ asked = 0
  /\ waiting = 0
  /\ answered = 0
  /\ crowded = FALSE

(* Only here a crowded channel can be found empty again.                   *)
Ask ==
  /\ waiting = 0
  /\ asked' \in Nat \ {0, asked}
  /\ waiting' = asked'
  /\ answered' = 0
  /\ ~crowded => ~crowded'
  /\ crowded' \in BOOLEAN

(* The only answer that arrives is the one that is waited for.             *)
Answer ==
  /\ waiting # 0
  /\ crowded \/ answered' = waiting
  /\ answered' \in Nat \ {0}
  /\ waiting' = 0
  /\ UNCHANGED <<asked, crowded>>

(* The host stops waiting: the connection is lost, or the answer is, or,   *)
(* with what it leaves behind, before the answer comes.                    *)
Disconnect ==
  /\ waiting' = 0
  /\ crowded' = TRUE \/ UNCHANGED crowded
  /\ UNCHANGED <<asked, answered>>

Copied ==
  /\ crowded' = TRUE
  /\ UNCHANGED <<asked, waiting, answered>>

Next == Ask \/ Answer \/ Disconnect \/ Copied

Spec == Init /\ [][Next]_vars

-----------------------------------------------------------------------------
(* What the host makes of it: the answer that came last is the answer to   *)
(* the command that was sent last, and none comes after it.                *)
Matches ==
  /\ ~crowded => answered \in {0, asked}
  /\ waiting \in {0, asked}
  /\ answered # 0 => waiting = 0
=============================================================================
