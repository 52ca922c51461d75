---------------------------- MODULE MCSignalQueue ----------------------------
(***************************************************************************)
(* SignalQueue on an array of three slots.  Two sample values are enough   *)
(* to tell a stale, repeated or overtaken sample from the right one, and   *)
(* six pushes wrap the ring twice.                                         *)
(***************************************************************************)
EXTENDS SignalQueue

=============================================================================
