----------------------------- MODULE MCRosToOscc -----------------------------
(***************************************************************************)
(* RosToOscc with a pedal and the steering channel, in halves of the full  *)
(* command.  The pedal's limits may be inverted, the steering's cannot.    *)
(* The values lie below, inside and above the limits.                      *)
(***************************************************************************)
EXTENDS RosToOscc

Channels == {"brake", "steering"}
LoRanges == [brake |-> {0, 2}, steering |-> {-2}]
HiRanges == [brake |-> {1, 2}, steering |-> {0, 2}]
Values == {-3, 1, 3}
Depths == [brake |-> 1, steering |-> 1, enable_disable |-> 2]

=============================================================================
