------------------------------- MODULE ByteQueue -------------------------------
(***************************************************************************)
(* What the receive buffer of the retransmitter promises: a queue of bytes *)
(* that takes whole lanes.  While a transmission is open, bytes come out   *)
(* in the order in which they came in, each once, and a lane is refused,   *)
(* as a whole, only when it does not fit in Capacity bytes.                *)
(***************************************************************************)
EXTENDS Naturals, Sequences

CONSTANTS Capacity, LaneSize

VARIABLES open,     (* a transmission takes lanes                          *)
          queue,    (* the bytes that wait                                 *)
          offered,  (* the number of bytes the host has sent               *)
          last      (* the byte that came out last; 0: none                *)

vars == <<open, queue, offered, last>>

Empty ==
  /\ queue = <<>>
  /\ offered = 0
  /\ last = 0

Init == open = FALSE /\ Empty

Open ==
  /\ ~open
  /\ open' = TRUE
  /\ Empty'

Lane == [i \in 1 .. LaneSize |-> offered + i]

Put ==
  /\ open
  /\ Len(queue) + LaneSize <= Capacity
  /\ queue' = queue \o Lane
  /\ offered' = offered + LaneSize
  /\ UNCHANGED <<open, last>>

Refuse ==
  /\ open
  /\ Len(queue) + LaneSize > Capacity
  /\ offered' = offered + LaneSize
  /\ UNCHANGED <<open, queue, last>>

Take ==
  /\ open
  /\ queue # <<>>
  /\ last' = Head(queue)
  /\ queue' = Tail(queue)
  /\ UNCHANGED <<open, offered>>

Close ==
  /\ open
  /\ open' = FALSE
  /\ Empty'

Next == Open \/ Put \/ Refuse \/ Take \/ Close

Spec == Init /\ [][Next]_vars
=============================================================================
