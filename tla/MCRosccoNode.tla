----------------------------- MODULE MCRosccoNode -----------------------------
(***************************************************************************)
(* RosccoNode with two kinds of report, so that one may be refused and the *)
(* other not, and two modules, so that a call may reach one of them; a     *)
(* command has one value, and one message of each topic waits.             *)
(***************************************************************************)
EXTENDS RosccoNode

Channels == {"brake", "steering"}
LoRanges == [brake |-> {0}, steering |-> {0}]
HiRanges == [brake |-> {1}, steering |-> {1}]
Values == {1}
Depths == [brake |-> 1, steering |-> 1, enable_disable |-> 1]
Kinds == << "brake", "obd" >>

=============================================================================
