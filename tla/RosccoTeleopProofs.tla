-------------------------- MODULE RosccoTeleopProofs --------------------------
(***************************************************************************)
(* Proofs about RosccoTeleop for every time-out and every set of trigger   *)
(* and stick readings.                                                     *)
(***************************************************************************)
EXTENDS RosccoTeleop, TLAPS

\* The watchdog disarms and disables in one step, and only an armed message
\* enables or moves a command: the two facts hold each other up.
EnabledArmed == enabled => armed
Safe == EnabledArmed /\ UnarmedIsNeutral

\* Arming takes a message, so that the watchdog's last_joy_ > 0 cannot fail
\* while control is enabled.
ArmedSeen == armed => last_joy > 0

Inv == TypeOK /\ Safe /\ ArmedSeen

LEMMA ZeroedIsCommand == Zeroed \in Command
BY DEF Zeroed, Command

LEMMA InitInv == Init => Inv
<1> SUFFICES ASSUME Init
             PROVE  Inv
  OBVIOUS
<1>1. TypeOK
  <2>1. /\ armed \in BOOLEAN /\ enabled \in BOOLEAN /\ parked \in BOOLEAN
        /\ previous_start \in BOOLEAN /\ previous_back \in BOOLEAN
        /\ start_before \in BOOLEAN
    BY DEF Init
  <2>2. commands \in Command /\ average \in -2 .. 2
    BY ZeroedIsCommand DEF Init
  <2>3. now \in 1 .. MaxTime /\ last_joy \in 0 .. MaxTime /\ sent \in 0 .. MaxTime
    BY TeleopAssumption DEF Init
  <2> QED
    BY <2>1, <2>2, <2>3 DEF TypeOK
<1>2. Safe /\ ArmedSeen
  BY DEF Init, Safe, ArmedSeen, EnabledArmed, UnarmedIsNeutral
<1> QED
  BY <1>1, <1>2 DEF Inv

\* The scaled axes stay within the commands' ranges.
LEMMA ScaledInRange ==
  ASSUME NEW j \in Joy
  PROVE  [brake |-> Pedal(j.brake), throttle |-> Pedal(j.throttle),
          steering |-> Torque(j.steering)] \in Command
<1>1. j.brake \in -1 .. 1 /\ j.throttle \in -1 .. 1 /\ j.steering \in -1 .. 1
  BY TeleopAssumption DEF Joy
<1> QED
  BY <1>1 DEF Command, Pedal, Torque

LEMMA JoyInv ==
  ASSUME Inv, NEW j \in Joy,
         JoyArms(j) \/ JoyWaits(j) \/ JoyDisables(j) \/ JoyEnables(j) \/ JoyDrives(j)
  PROVE  Inv'
<1> USE DEF Inv, JoyArrives, clockVars
<1>1. /\ last_joy' = now /\ now' = now /\ average' = average /\ sent' = sent
      /\ parked' = (parked \/ Parked(j)) /\ start_before' = j.start
  BY DEF JoyArms, JoyWaits, JoyDisables, JoyEnables, JoyDrives, JoyInput
<1>2. j.start \in BOOLEAN /\ j.back \in BOOLEAN
  BY DEF Joy
<1>3. now \in 1 .. MaxTime /\ now > 0
  BY DEF TypeOK
<1>4. parked' \in BOOLEAN
  BY <1>1 DEF TypeOK, Parked
<1>5. CASE JoyArms(j)
  <2>1. armed' = TRUE /\ UNCHANGED << previous_start, previous_back, enabled, commands >>
    BY <1>1, <1>5 DEF JoyArms
  <2>2. TypeOK'
    BY <1>1, <1>2, <1>3, <1>4, <2>1 DEF TypeOK
  <2> QED
    BY <1>1, <1>3, <2>1, <2>2 DEF Safe, ArmedSeen, EnabledArmed, UnarmedIsNeutral
<1>6. CASE JoyWaits(j)
  <2>1. ~ armed /\ UNCHANGED << armed, previous_start, previous_back, enabled, commands >>
    BY <1>6 DEF JoyWaits
  <2>2. TypeOK'
    BY <1>1, <1>2, <1>3, <1>4, <2>1 DEF TypeOK
  <2> QED
    BY <1>1, <2>1, <2>2 DEF Safe, ArmedSeen, EnabledArmed, UnarmedIsNeutral
<1>7. CASE JoyDisables(j) \/ JoyEnables(j) \/ JoyDrives(j)
  <2>1. /\ armed /\ armed' = armed
        /\ previous_back' = j.back /\ previous_start' = j.start
        /\ commands' = [brake |-> Pedal(j.brake), throttle |-> Pedal(j.throttle),
                        steering |-> Torque(j.steering)]
    BY <1>7 DEF JoyDisables, JoyEnables, JoyDrives, JoyInput
  <2>2. enabled' \in BOOLEAN
    BY <1>7 DEF JoyDisables, JoyEnables, JoyDrives, SetEnabled, TypeOK
  <2>3. commands' \in Command
    BY <2>1, ScaledInRange
  <2>4. TypeOK'
    BY <1>1, <1>2, <1>3, <1>4, <2>1, <2>2, <2>3 DEF TypeOK
  <2>5. last_joy' > 0
    BY <1>1, <1>3
  <2> QED
    BY <2>1, <2>4, <2>5 DEF Safe, ArmedSeen, EnabledArmed, UnarmedIsNeutral
<1> QED
  BY <1>5, <1>6, <1>7

LEMMA WatchdogInv ==
  ASSUME Inv, WatchdogTrips
  PROVE  Inv'
<1>1. /\ armed' = FALSE /\ enabled' = FALSE
      /\ commands' = Zeroed /\ average' = 0
      /\ UNCHANGED << now, last_joy, previous_start, previous_back, start_before, sent, parked >>
  BY DEF WatchdogTrips, ZeroCommands, Disarm, SetEnabled, clockVars
<1>2. TypeOK'
  <2>1. armed' \in BOOLEAN /\ enabled' \in BOOLEAN
    BY <1>1
  <2>2. commands' \in Command /\ average' \in -2 .. 2
    BY <1>1, ZeroedIsCommand
  <2>3. TypeOK
    BY DEF Inv
  <2> QED
    BY <1>1, <2>1, <2>2, <2>3 DEF TypeOK
<1> QED
  BY <1>1, <1>2 DEF Inv, Safe, ArmedSeen, EnabledArmed, UnarmedIsNeutral

LEMMA PublishInv ==
  ASSUME Inv, PublishCommands
  PROVE  Inv'
<1>1. /\ enabled /\ average' \in -2 .. 2 /\ sent' = now
      /\ UNCHANGED << now, last_joy, armed, previous_start, previous_back,
                      start_before, enabled, commands, parked >>
  BY DEF PublishCommands, Between, clockVars, padVars
<1>2. TypeOK'
  BY <1>1 DEF Inv, TypeOK
<1> QED
  BY <1>1, <1>2 DEF Inv, Safe, ArmedSeen, EnabledArmed, UnarmedIsNeutral

LEMMA TickInv ==
  ASSUME Inv, Tick
  PROVE  Inv'
<1>1. /\ now < MaxTime /\ now' = now + 1
      /\ UNCHANGED << last_joy, armed, previous_start, previous_back, start_before,
                      enabled, commands, average, sent, parked >>
  BY DEF Tick, padVars
<1>2. TypeOK'
  BY <1>1, TeleopAssumption DEF Inv, TypeOK
<1> QED
  BY <1>1, <1>2 DEF Inv, Safe, ArmedSeen, EnabledArmed, UnarmedIsNeutral

LEMMA PlugInInv ==
  ASSUME Inv, PlugIn
  PROVE  Inv'
<1>1. /\ parked' = FALSE
      /\ UNCHANGED << now, last_joy, armed, previous_start, previous_back, start_before,
                      enabled, commands, average, sent >>
  BY DEF PlugIn, clockVars, padVars
<1>2. TypeOK'
  BY <1>1 DEF Inv, TypeOK
<1> QED
  BY <1>1, <1>2 DEF Inv, Safe, ArmedSeen, EnabledArmed, UnarmedIsNeutral

LEMMA NextInv == Inv /\ [Next]_vars => Inv'
<1> SUFFICES ASSUME Inv, [Next]_vars
             PROVE  Inv'
  OBVIOUS
<1>1. CASE JoyCallback
  BY <1>1, JoyInv DEF JoyCallback
<1>2. CASE WatchdogTrips
  BY <1>2, WatchdogInv
<1>3. CASE PublishCommands
  BY <1>3, PublishInv
<1>4. CASE Tick
  BY <1>4, TickInv
<1>5. CASE PlugIn
  BY <1>5, PlugInInv
<1>6. CASE UNCHANGED vars
  BY <1>6 DEF vars, clockVars, padVars, Inv, TypeOK, Safe, ArmedSeen,
     EnabledArmed, UnarmedIsNeutral
<1> QED
  BY <1>1, <1>2, <1>3, <1>4, <1>5, <1>6 DEF Next, Timer

LEMMA InvAlways == Spec => []Inv
BY InitInv, NextInv, PTL DEF Spec

\* TypeOK of the teleop node: no pad can move a command out of its range.
THEOREM TypeCorrect == Spec => []TypeOK
<1>1. Inv => TypeOK
  BY DEF Inv
<1> QED
  BY <1>1, InvAlways, PTL

\* An unarmed teleop holds no trace of earlier input.
THEOREM UnarmedNeutral == Spec => []UnarmedIsNeutral
<1>1. Inv => UnarmedIsNeutral
  BY DEF Inv, Safe
<1> QED
  BY <1>1, InvAlways, PTL

\* Whatever the timing of joy messages, timer and clock, no command goes out
\* for a pad that has been silent for longer than joy_timeout.
THEOREM FreshCommands == Spec => CommandsAreFresh
<1>1. Inv /\ [Next]_vars =>
        [sent' # sent => enabled /\ now - last_joy <= JoyTimeout]_vars
  <2> SUFFICES ASSUME Inv, Next, sent' # sent
               PROVE  enabled /\ now - last_joy <= JoyTimeout
    OBVIOUS
  <2>1. PublishCommands
    BY DEF Next, Timer, JoyCallback, JoyArms, JoyWaits, JoyDisables, JoyEnables,
       JoyDrives, JoyInput, JoyArrives, WatchdogTrips, PlugIn, Tick
  <2> QED
    BY <2>1, TeleopAssumption
    DEF PublishCommands, Expired, Inv, Safe, EnabledArmed, ArmedSeen, TypeOK
<1> QED
  BY <1>1, InvAlways, PTL DEF Spec, CommandsAreFresh

\* Every step of the teleop is a step of the switch, or none.
LEMMA SwitchSteps == Inv /\ [Next]_vars => [Switch!SwitchNext]_(Switch!switchVars)
<1> SUFFICES ASSUME Inv, [Next]_vars
             PROVE  Switch!SwitchNext \/ UNCHANGED Switch!switchVars
  OBVIOUS
<1>1. ASSUME NEW j \in Joy, JoyArms(j) \/ JoyWaits(j) \/ JoyDrives(j)
      PROVE  Switch!Hold
  <2>1. /\ last_joy' = now /\ UNCHANGED << now, enabled, sent >>
        /\ armed' \in {armed, TRUE}
    BY <1>1 DEF JoyArms, JoyWaits, JoyDrives, JoyInput, JoyArrives, clockVars
  <2> QED
    BY <2>1 DEF Switch!Hold
<1>2. ASSUME NEW j \in Joy, JoyDisables(j)
      PROVE  Switch!Press(FALSE)
  <2>1. last_joy' = now /\ enabled' = FALSE /\ UNCHANGED << now, armed, sent >>
    BY <1>2 DEF JoyDisables, JoyInput, JoyArrives, SetEnabled, clockVars
  <2> QED
    BY <2>1 DEF Switch!Press
<1>3. ASSUME NEW j \in Joy, JoyEnables(j)
      PROVE  Switch!Press(TRUE)
  <2>1. armed /\ last_joy' = now /\ enabled' = TRUE /\ UNCHANGED << now, armed, sent >>
    BY <1>3 DEF JoyEnables, JoyInput, JoyArrives, SetEnabled, clockVars
  <2> QED
    BY <2>1 DEF Switch!Press
<1>4. ASSUME WatchdogTrips
      PROVE  Switch!Release
  <2>1. /\ enabled /\ now - last_joy > JoyTimeout
        /\ enabled' = FALSE /\ armed' = FALSE /\ UNCHANGED << now, last_joy, sent >>
    BY <1>4 DEF WatchdogTrips, Expired, Disarm, SetEnabled, clockVars
  <2>2. ~ (now - last_joy <= JoyTimeout)
    BY <2>1, TeleopAssumption DEF Inv, TypeOK
  <2> QED
    BY <2>1, <2>2 DEF Switch!Release, Switch!Held
<1>5. ASSUME PublishCommands
      PROVE  Switch!Command
  <2>1. /\ enabled /\ ~ Expired
        /\ sent' = now /\ UNCHANGED << now, last_joy, armed, enabled >>
    BY <1>5 DEF PublishCommands, clockVars, padVars
  <2>2. now - last_joy <= JoyTimeout
    BY <2>1, TeleopAssumption DEF Expired, Inv, Safe, EnabledArmed, ArmedSeen, TypeOK
  <2> QED
    BY <2>1, <2>2 DEF Switch!Command, Switch!Held
<1>6. ASSUME Tick
      PROVE  Switch!Clock
  BY <1>6 DEF Tick, padVars, Switch!Clock
<1>7. CASE PlugIn \/ UNCHANGED vars
  BY <1>7 DEF PlugIn, vars, clockVars, padVars, Switch!switchVars
<1> QED
  BY <1>1, <1>2, <1>3, <1>4, <1>5, <1>6, <1>7
  DEF Next, Timer, JoyCallback, Switch!SwitchNext

\* joyCallback() and publishCommands() do what the dead-man's switch does, for
\* every time-out and every pad.  That silence does release it is liveness.
THEOREM SafeSwitch == Spec => Switch!SwitchSpec
<1>1. Init => Switch!SwitchInit
  BY DEF Init, Switch!SwitchInit
<1> QED
  BY <1>1, SwitchSteps, InvAlways, PTL DEF Spec, Switch!SwitchSpec

=============================================================================
