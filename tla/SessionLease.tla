----------------------------- MODULE SessionLease -----------------------------
(***************************************************************************)
(* What the transport session promises its clients: an exclusive lease.    *)
(* At most one transport holds it; the holder keeps it as long as it       *)
(* renews it within the timeout, gives it back when it asks to, and loses  *)
(* it in no other way.                                                     *)
(***************************************************************************)
EXTENDS Naturals

CONSTANTS Source,    (* the transports                                     *)
          NoSource,  (* the lease is free                                  *)
          Timeout    (* a lease not renewed for longer may be taken back   *)

VARIABLES owner,     (* the holder of the lease, or NoSource               *)
          idle,      (* the time since it was last renewed                 *)
          leaving    (* the transport that is giving it back, or NoSource  *)

vars == <<owner, idle, leaving>>

Init ==
  /\ owner = NoSource
  /\ idle = 0
  /\ leaving = NoSource

(* Transport s obtains a free lease, or renews its own.                    *)
Hold(s) ==
  /\ owner \in {NoSource, s}
  /\ owner' = s
  /\ idle' = 0
  /\ UNCHANGED leaving

(* The holder asks to give the lease back: that, too, is a sign of life.   *)
AskToLeave(s) ==
  /\ owner = s
  /\ leaving' = s
  /\ idle' = 0
  /\ UNCHANGED owner

(* The request is granted, or refused because it was malformed.            *)
AnswerLeave ==
  /\ leaving # NoSource
  /\ leaving' = NoSource
  /\ \/ owner = leaving /\ owner' = NoSource
     \/ UNCHANGED owner
  /\ UNCHANGED idle

(* Only a lease that was not renewed within the timeout is taken back.     *)
Lapse ==
  /\ owner # NoSource
  /\ idle > Timeout
  /\ owner' = NoSource
  /\ UNCHANGED <<idle, leaving>>

TimePasses ==
  /\ idle' = idle + 1
  /\ UNCHANGED <<owner, leaving>>

Next ==
  \/ \E s \in Source : Hold(s) \/ AskToLeave(s)
  \/ AnswerLeave
  \/ Lapse
  \/ TimePasses

Spec == Init /\ [][Next]_vars
=============================================================================
