------------------------------- MODULE LaneQueue -------------------------------
(***************************************************************************)
(* What the sampler promises the host: a queue of lanes.  While sampling   *)
(* is open, lanes come out in the order in which they were completed, each *)
(* once, and one is lost only when Capacity - 1 others were waiting.       *)
(***************************************************************************)
EXTENDS Naturals, Sequences

CONSTANT Capacity

VARIABLES open,      (* sampling                                           *)
          queue,     (* the lanes completed and not sent                   *)
          captured,  (* the number of lanes completed                      *)
          overrun,   (* the lane being completed will be lost              *)
          last       (* the last lane sent; 0: none, or a lane of zeroes   *)

vars == <<open, queue, captured, overrun, last>>

Init ==
  /\ open = FALSE
  /\ queue = <<>>
  /\ captured = 0
  /\ overrun = FALSE
  /\ last = 0

Open ==
  /\ ~open
  /\ open' = TRUE
  /\ queue' = <<>>
  /\ captured' = 0
  /\ overrun' = FALSE
  /\ last' = 0

Enqueue ==
  /\ open
  /\ ~overrun
  /\ Len(queue) < Capacity
  /\ captured' = captured + 1
  /\ queue' = Append(queue, captured')
  /\ UNCHANGED <<open, overrun, last>>

Fill ==
  /\ Len(queue) >= Capacity - 1
  /\ overrun' = TRUE
  /\ UNCHANGED <<open, queue, captured, last>>

Lose ==
  /\ open
  /\ overrun
  /\ captured' = captured + 1
  /\ overrun' \in BOOLEAN
  /\ UNCHANGED <<open, queue, last>>

Dequeue ==
  /\ open
  /\ queue # <<>>
  /\ last' = Head(queue)
  /\ queue' = Tail(queue)
  /\ UNCHANGED <<open, captured, overrun>>

(* Closing discards what was not sent ...                                  *)
Close ==
  /\ open' = FALSE
  /\ queue' = <<>>
  /\ overrun' = FALSE
  /\ UNCHANGED <<captured, last>>

(* ... and a send that was under way may still deliver a lane of zeroes.   *)
SendZeroes ==
  /\ ~open
  /\ last' = 0
  /\ UNCHANGED <<open, queue, captured, overrun>>

Next ==
  \/ Open
  \/ Enqueue
  \/ Fill
  \/ Lose
  \/ Dequeue
  \/ Close
  \/ SendZeroes

Spec == Init /\ [][Next]_vars
=============================================================================
