----------------------------- MODULE RosccoTeleop -----------------------------
(***************************************************************************)
(* The gamepad teleop node (example/roscco_teleop.cpp): joyCallback()      *)
(* turns joy messages into commands and enables or disables control,       *)
(* publishCommands() is the timer that publishes the commands and holds    *)
(* the joy watchdog.  One executor thread runs both, in any order.         *)
(*                                                                         *)
(* A trigger reads 1 at rest (parked), 0 before it is first moved and -1   *)
(* when pulled; the stick reads -1 .. 1.  Commands are counted in halves   *)
(* of the full command, so that 0 .. 2 is the range of a pedal.            *)
(***************************************************************************)
EXTENDS Integers

CONSTANTS
  JoyTimeout,  \* joy_timeout_s_
  Trigger,     \* the trigger readings that occur
  Stick,       \* the stick readings that occur
  MaxTime      \* bound: the clock

ASSUME TeleopAssumption ==
  /\ JoyTimeout \in Nat /\ MaxTime \in Nat \ {0}
  /\ Trigger \subseteq -1 .. 1 /\ Stick \subseteq -1 .. 1

VARIABLES
  now,             \* the node's clock
  last_joy,        \* last_joy_; 0 as long as there is none
  armed,           \* armed_
  enabled,         \* enabled_
  previous_start,  \* previous_start_
  previous_back,   \* previous_back_
  commands,        \* brake_, throttle_ and steering_
  average,         \* steering_average_
  sent,            \* history: when commands were last published
  parked,          \* history: both triggers seen at rest since the pad was plugged in
  start_before     \* history: START in the last message, armed or not

clockVars == << now >>
padVars == << last_joy, armed, previous_start, previous_back, start_before >>
vars == << clockVars, padVars, enabled, commands, average, sent, parked >>

Joy == [brake : Trigger, throttle : Trigger, steering : Stick,
        start : BOOLEAN, back : BOOLEAN]
Zeroed == [brake |-> 0, throttle |-> 0, steering |-> 0]
Command == [brake : 0 .. 2, throttle : 0 .. 2, steering : -2 .. 2]

(***************************************************************************)
(* Mutants: plausible bugs in the definitions below.                       *)
(***************************************************************************)
PedalUnshifted(axis) == - axis
ExpiredNever == FALSE
DisarmForgotten == UNCHANGED armed
ZeroCommandsOnly == commands' = Zeroed /\ UNCHANGED average

-----------------------------------------------------------------------------
(* The code. *)

\* linearTransform(): triggers [1, -1] -> [0, 1], the stick [1, -1] -> [-1, 1].
Pedal(axis) == 1 - axis
Torque(axis) == - 2 * axis

\* Both triggers above kParkedThreshold.
Parked(j) == j.brake = 1 /\ j.throttle = 1

\* exponentialAverage() is a weighted mean of its arguments.
Between(a, b) == {x \in -2 .. 2 : (a <= x /\ x <= b) \/ (b <= x /\ x <= a)}

Init ==
  /\ now = 1
  /\ last_joy = 0
  /\ armed = FALSE /\ enabled = FALSE
  /\ previous_start = FALSE /\ previous_back = FALSE
  /\ commands = Zeroed /\ average = 0
  /\ sent = 0 /\ parked = FALSE /\ start_before = FALSE

\* setEnabled(): publishes on enable_disable and sets enabled_.
SetEnabled(e) == enabled' = e

\* Every well-formed message.  One with too few axes or buttons is ignored,
\* last_joy_ included, and is no step.
JoyArrives(j) ==
  /\ last_joy' = now
  /\ start_before' = j.start
  /\ parked' = (parked \/ Parked(j))
  /\ UNCHANGED << clockVars, average, sent >>

JoyArms(j) ==
  /\ ~ armed /\ Parked(j)
  /\ JoyArrives(j)
  /\ armed' = TRUE
  /\ UNCHANGED << previous_start, previous_back, enabled, commands >>

JoyWaits(j) ==
  /\ ~ armed /\ ~ Parked(j)
  /\ JoyArrives(j)
  /\ UNCHANGED << armed, previous_start, previous_back, enabled, commands >>

\* An armed message: commands, then the edges of BACK and START.
JoyInput(j) ==
  /\ armed
  /\ JoyArrives(j)
  /\ commands' = [brake |-> Pedal(j.brake), throttle |-> Pedal(j.throttle),
                  steering |-> Torque(j.steering)]
  /\ previous_back' = j.back
  /\ previous_start' = j.start
  /\ UNCHANGED armed

BackPressed(j) == ~ previous_back /\ j.back
StartPressed(j) == ~ previous_start /\ j.start

JoyDisables(j) ==
  /\ JoyInput(j)
  /\ BackPressed(j)
  /\ SetEnabled(FALSE)

JoyEnables(j) ==
  /\ JoyInput(j)
  /\ ~ BackPressed(j) /\ StartPressed(j)
  /\ SetEnabled(TRUE)

JoyDrives(j) ==
  /\ JoyInput(j)
  /\ ~ BackPressed(j) /\ ~ StartPressed(j)
  /\ UNCHANGED enabled

\* The watchdog's test in publishCommands().
Expired == enabled /\ last_joy > 0 /\ now - last_joy > JoyTimeout

ZeroCommands == commands' = Zeroed /\ average' = 0
Disarm == armed' = FALSE

\* The timer finds joy silent: it publishes no command, only the disable.
WatchdogTrips ==
  /\ Expired
  /\ ZeroCommands
  /\ Disarm
  /\ SetEnabled(FALSE)
  /\ UNCHANGED << clockVars, last_joy, previous_start, previous_back, start_before,
                  sent, parked >>

\* The timer publishes brake_, throttle_ and the new steering_average_.
PublishCommands ==
  /\ enabled /\ ~ Expired
  /\ average' \in Between(average, commands.steering)
  /\ sent' = now
  /\ UNCHANGED << clockVars, padVars, enabled, commands, parked >>

\* The gamepad is unplugged and plugged in again: whatever its triggers are
\* doing, it reports them as 0 until they are moved.  The node is not told.
PlugIn ==
  /\ parked
  /\ parked' = FALSE
  /\ UNCHANGED << clockVars, padVars, enabled, commands, average, sent >>

Tick ==
  /\ now < MaxTime
  /\ now' = now + 1
  /\ UNCHANGED << padVars, enabled, commands, average, sent, parked >>

JoyCallback ==
  \E j \in Joy : JoyArms(j) \/ JoyWaits(j) \/ JoyDisables(j) \/ JoyEnables(j) \/ JoyDrives(j)

Timer == WatchdogTrips \/ PublishCommands

Next == JoyCallback \/ Timer \/ PlugIn \/ Tick

Spec == Init /\ [][Next]_vars

(***************************************************************************)
(* The wall timer of the spinning executor fires again and again, and time *)
(* passes.  Nothing is assumed of joy_node.                                *)
(***************************************************************************)
FairSpec == Spec /\ WF_vars(WatchdogTrips) /\ WF_vars(Tick)

-----------------------------------------------------------------------------
(* Properties. *)

\* Types of the variables; in particular every command stays in its range.
TypeOK ==
  /\ now \in 1 .. MaxTime /\ last_joy \in 0 .. MaxTime
  /\ armed \in BOOLEAN /\ enabled \in BOOLEAN
  /\ previous_start \in BOOLEAN /\ previous_back \in BOOLEAN
  /\ commands \in Command /\ average \in -2 .. 2
  /\ sent \in 0 .. MaxTime
  /\ parked \in BOOLEAN /\ start_before \in BOOLEAN

\* Before arming, and again after a time-out, nothing of an earlier input is
\* left: not in the commands, nor in the steering average that outlives them.
UnarmedIsNeutral == ~ armed => commands = Zeroed /\ average = 0

\* No command is ever published on behalf of a pad that has been silent for
\* longer than joy_timeout, nor while control is disabled.
CommandsAreFresh ==
  [][sent' # sent => enabled /\ now - last_joy <= JoyTimeout]_vars

\* When joy goes silent, control is eventually disabled.  The bound on t
\* leaves the clock room for the timeout.
SilenceDisables ==
  \A t \in 1 .. MaxTime - JoyTimeout - 1 :
    (enabled /\ last_joy = t) ~> (~ enabled \/ last_joy # t)

\* What the log line roscco_teleop.cpp:100 tells the driver: "Pull both
\* triggers fully to arm, then press START to enable."  Enabling thus takes a
\* press: START up in one message and down in the next.
StartMustBePressed == [][~ enabled /\ enabled' => ~ start_before]_vars

\* What the comment at roscco_teleop.cpp:122-123 says: "Triggers report 0.0
\* until they are first moved, which reads as 50%. Require both to be pulled to
\* the parked end before accepting input."  Enabling thus takes triggers that
\* this pad, since it was plugged in, has reported at rest.
EnablingNeedsParked == [][~ enabled /\ enabled' => parked']_vars

\* joyCallback() and publishCommands() are a dead-man's switch, whose "at rest"
\* is armed_: whatever the buttons, the edges and the timing, each of their
\* steps is one of the switch, and silence releases it.
Switch == INSTANCE DeadManSwitch WITH rested <- armed
ImplementsSwitch == Switch!FairSwitch

=============================================================================
