---------------------------- MODULE DeadManSwitch ----------------------------
(***************************************************************************)
(* What RosccoTeleop (example/roscco_teleop.cpp) promises the car: a       *)
(* command goes out only while somebody holds the pad, and control is      *)
(* given up when nobody does.  After that, it takes a pad that has been at *)
(* rest, and then a press, to enable it again.                             *)
(***************************************************************************)
EXTENDS Integers

CONSTANTS
  JoyTimeout,  \* joy_timeout_s_
  MaxTime      \* bound: the clock

ASSUME SwitchAssumption == JoyTimeout \in Nat /\ MaxTime \in Nat \ {0}

VARIABLES
  now,       \* the clock
  last_joy,  \* when the pad was last heard of; 0 as long as it was not
  rested,    \* it has been at rest since the start or the last release
  enabled,   \* control is enabled
  sent       \* when a command was last sent

switchVars == << now, last_joy, rested, enabled, sent >>

\* Mutants: the watchdog is forgotten or takes a command for a sign of life, or
\* the test of enabled_ is forgotten.
HeldAlways == TRUE
HeldWhileSending == now - sent <= JoyTimeout
CommandWhateverEnabled == sent' = now /\ UNCHANGED << now, last_joy, rested, enabled >>

-----------------------------------------------------------------------------
Held == now - last_joy <= JoyTimeout

SwitchInit ==
  /\ now = 1 /\ last_joy = 0 /\ sent = 0
  /\ rested = FALSE /\ enabled = FALSE

\* The pad is heard of, perhaps for the first time at rest.
Hold ==
  /\ last_joy' = now
  /\ rested' \in {rested, TRUE}
  /\ UNCHANGED << now, enabled, sent >>

\* A button asks for control, or gives it up.
Press(e) ==
  /\ e => rested
  /\ last_joy' = now
  /\ enabled' = e
  /\ UNCHANGED << now, rested, sent >>

Command ==
  /\ enabled /\ Held
  /\ sent' = now
  /\ UNCHANGED << now, last_joy, rested, enabled >>

\* Nobody holds the pad.
Release ==
  /\ enabled /\ ~ Held
  /\ enabled' = FALSE
  /\ rested' = FALSE
  /\ UNCHANGED << now, last_joy, sent >>

Clock ==
  /\ now < MaxTime
  /\ now' = now + 1
  /\ UNCHANGED << last_joy, rested, enabled, sent >>

SwitchNext ==
  Hold \/ Press(TRUE) \/ Press(FALSE) \/ Command \/ Release \/ Clock

SwitchSpec == SwitchInit /\ [][SwitchNext]_switchVars

\* Time passes, and the release does not wait for ever.
FairSwitch == SwitchSpec /\ WF_switchVars(Release) /\ WF_switchVars(Clock)

=============================================================================
