------------------------------ MODULE SampleFifo ------------------------------
(***************************************************************************)
(* What SignalQueue (include/roscco/signal_queue.hpp) promises its two     *)
(* users, the OSCC report handlers and the drain timer: a bounded FIFO     *)
(* that never blocks the handler.  An offered sample is accepted or lost   *)
(* at once; an accepted sample is never lost, changed, repeated or         *)
(* overtaken.                                                              *)
(***************************************************************************)
EXTENDS Integers, Sequences

CONSTANTS
  Sample,   \* the stamped reports
  Capacity  \* how many accepted samples may be waiting

VARIABLES
  accepted,  \* every sample taken in so far, oldest first
  delivered, \* every sample handed to the consumer so far, oldest first
  dropped    \* how many offered samples were refused

vars == << accepted, delivered, dropped >>

Waiting == Len(accepted) - Len(delivered)

Init ==
  /\ accepted = << >>
  /\ delivered = << >>
  /\ dropped = 0

Accept(v) ==
  /\ Waiting < Capacity
  /\ accepted' = Append(accepted, v)
  /\ UNCHANGED << delivered, dropped >>

Refuse ==
  /\ dropped' = dropped + 1
  /\ UNCHANGED << accepted, delivered >>

Deliver ==
  /\ Waiting > 0
  /\ delivered' = Append(delivered, accepted[Len(delivered) + 1])
  /\ UNCHANGED << accepted, dropped >>

Next ==
  \/ \E v \in Sample : Accept(v)
  \/ Refuse
  \/ Deliver

Spec == Init /\ [][Next]_vars

=============================================================================
