----------------------------- MODULE MCSignalSpec -----------------------------
(***************************************************************************)
(* SignalSpec for every start bit, length, byte order and sign the         *)
(* parameters admit and every length of a frame: the real sizes.           *)
(***************************************************************************)
EXTENDS SignalSpec

EverySpec == AllSpecs

=============================================================================
