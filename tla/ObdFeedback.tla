----------------------------- MODULE ObdFeedback -----------------------------
(***************************************************************************)
(* ObdFeedback (src/obd_feedback.cpp): decodes the steering angle and the  *)
(* brake pedal out of the OBD frames and warns when one of them has gone   *)
(* quiet.  It has no thread of its own: the drain timer of OsccToRos calls *)
(* process() and checkStaleness(), so the actions here are composed into   *)
(* that module's.                                                          *)
(*                                                                         *)
(* The two signals are treated alike line by line and are kept as          *)
(* functions over Signal.                                                  *)
(***************************************************************************)
EXTENDS SignalLayout, Sequences

CONSTANTS
  Signal,           \* steering_ and brake_pedal_
  Config,           \* their SignalSpecs: enabled, can_id and layout
  FeedbackTimeout,  \* feedback_timeout_
  StaleWarnWindow   \* the 5 s within which the staleness warning is not repeated

ASSUME FeedbackAssumption ==
  /\ \A s \in Signal :
       /\ Config[s].enabled \in BOOLEAN
       /\ Config[s].layout \in AllSpecs
  /\ FeedbackTimeout \in Nat /\ StaleWarnWindow \in Nat

VARIABLES
  reports,      \* frames decoded and published on each signal's topic
  last,         \* last_steering_, last_brake_; 0 as long as there is none
  lastStaleLog  \* when each signal's staleness warning was last logged

feedbackVars == << reports, last, lastStaleLog >>

(***************************************************************************)
(* Mutants: plausible bugs in the definitions below.                       *)
(***************************************************************************)
DecodesUnchecked(s, f) == Config[s].enabled /\ f.id = Config[s].can_id
StaleAtStartup(s, t) == Config[s].enabled /\ t - last[s] > FeedbackTimeout
StaleNever(s, t) == FALSE

-----------------------------------------------------------------------------
(* The code. *)

\* The constructor switches a signal off that does not fit in eight bytes.
Enabled(s) == Config[s].enabled /\ FitsIn(Config[s].layout, 8)

\* process() decodes frame f for signal s.
Decodes(s, f) ==
  /\ Enabled(s)
  /\ f.id = Config[s].can_id
  /\ FitsIn(Config[s].layout, f.dlc)

FeedbackInit ==
  /\ reports = [s \in Signal |-> << >>]
  /\ last = [s \in Signal |-> 0]
  /\ lastStaleLog = [s \in Signal |-> - StaleWarnWindow]

\* process(): a frame may carry both signals, one or none.
Process(f) ==
  /\ reports' = [s \in Signal |->
       IF Decodes(s, f) THEN Append(reports[s], f) ELSE reports[s]]
  /\ last' = [s \in Signal |-> IF Decodes(s, f) THEN f.stamp ELSE last[s]]
  /\ UNCHANGED lastStaleLog

Stale(s, t) == Enabled(s) /\ last[s] > 0 /\ t - last[s] > FeedbackTimeout

\* checkStaleness() at time t.
CheckStaleness(t) ==
  /\ lastStaleLog' = [s \in Signal |->
       IF Stale(s, t) /\ t >= lastStaleLog[s] + StaleWarnWindow THEN t
       ELSE lastStaleLog[s]]
  /\ UNCHANGED << reports, last >>

=============================================================================
