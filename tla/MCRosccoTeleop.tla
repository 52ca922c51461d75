---------------------------- MODULE MCRosccoTeleop ----------------------------
(***************************************************************************)
(* RosccoTeleop with a clock long enough for a time-out, a second arming   *)
(* and a second time-out.  A trigger is at rest or unread, the stick       *)
(* centred or at one end: each command is either neutral or not.           *)
(***************************************************************************)
EXTENDS RosccoTeleop

=============================================================================
