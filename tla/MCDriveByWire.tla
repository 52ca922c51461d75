---------------------------- MODULE MCDriveByWire ----------------------------
(***************************************************************************)
(* DriveByWire with time limits that differ, and with a clock that leaves  *)
(* room for all of them one after the other.                               *)
(***************************************************************************)
EXTENDS DriveByWire

=============================================================================
