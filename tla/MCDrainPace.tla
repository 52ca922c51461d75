----------------------------- MODULE MCDrainPace -----------------------------
(***************************************************************************)
(* DrainPace with three queues of two or three reports, filled at          *)
(* different paces and together faster than drain() empties them, and a    *)
(* drain() that takes up to a unit of time for each step.                  *)
(***************************************************************************)
EXTENDS DrainPace

ThreeQueues == << "brake", "fault", "obd" >>
Slots == [brake |-> 3, fault |-> 3, obd |-> 4]
Periods == [brake |-> 3, fault |-> 4, obd |-> 2]

=============================================================================
