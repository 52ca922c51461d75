----------------------------- MODULE MCOsccToRos -----------------------------
(***************************************************************************)
(* OsccToRos with two plain queues and the OBD queue, each with room for   *)
(* one report.  Both signals travel in frames with identifier "A", the     *)
(* steering angle as Intel (the default layout) and the brake pedal as a   *)
(* Motorola signal of one byte, so a frame of one byte holds the brake     *)
(* pedal only and one of two bytes holds both.                             *)
(***************************************************************************)
EXTENDS OsccToRos

PlainQueues == << "brake", "fault" >>
Slots == [q \in {"brake", "fault", "obd"} |-> 2]
SomeFrames == {[id |-> "A", dlc |-> 1], [id |-> "A", dlc |-> 2], [id |-> "B", dlc |-> 8]}
Signals == {"steering", "brake_pedal"}
Configured ==
  [steering |-> [enabled |-> TRUE, can_id |-> "A",
     layout |-> [start_bit |-> 0, bit_length |-> 16, little_endian |-> TRUE, is_signed |-> TRUE]],
   brake_pedal |-> [enabled |-> TRUE, can_id |-> "A",
     layout |-> [start_bit |-> 7, bit_length |-> 8, little_endian |-> FALSE, is_signed |-> FALSE]]]

=============================================================================
