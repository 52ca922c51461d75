----------------------------- MODULE DriveByWire -----------------------------
(***************************************************************************)
(* From the pad to the car, on one clock: the teleop as the dead-man's     *)
(* switch it implements, with the timer of publishCommands(); the command  *)
(* topics and enable_disable as RosToOscc (src/ros_to_oscc.cpp) takes      *)
(* them, the one before or after the other; and the modules, which give up *)
(* on their own when no command comes for a while.  The three commands of  *)
(* one timer callback are one message here, and the modules are one: the   *)
(* last of them that still actuates.                                       *)
(*                                                                         *)
(* Any message may be lost: pushed out of a full subscription, refused by  *)
(* the OSCC API, or sent while roscco_node is not running.  One that is    *)
(* not lost is taken within Latency.  The teleop may die and start anew.   *)
(***************************************************************************)
EXTENDS DeadManSwitch, Sequences

CONSTANTS
  Period,         \* of the timer, 1 / publish_rate_hz_
  Latency,        \* from publish() to the OSCC API
  ModuleTimeout,  \* the modules' 200 ms
  Depth           \* of the subscriptions, 10 in the code

ASSUME WireAssumption ==
  /\ Period \in Nat \ {0} /\ Latency \in Nat
  /\ ModuleTimeout \in Nat \ {0} /\ Depth \in Nat \ {0}

VARIABLES
  fired,     \* when the teleop's timer last fired
  commands,  \* commands waiting at roscco_node
  requests,  \* enable_disable messages waiting there
  engaged,   \* the modules actuate
  heard,     \* when they last heeded a message
  followed,  \* history: when the pad gave rise to that message
  released,  \* history: when the teleop last stopped being enabled
  fault      \* history: something was lost, or the teleop has died

inboxVars == << commands, requests >>
moduleVars == << engaged, heard, followed >>
vars == << switchVars, fired, inboxVars, moduleVars, released, fault >>

(***************************************************************************)
(* Mutants: plausible bugs in the definitions below.                       *)
(***************************************************************************)
FiresAtHalfTheRate == fired + 2 * Period

-----------------------------------------------------------------------------
Init ==
  /\ SwitchInit
  /\ fired = now
  /\ commands = << >> /\ requests = << >>
  /\ engaged = FALSE /\ heard = 0 /\ followed = 0
  /\ released = 0 /\ fault = FALSE

(***************************************************************************)
(* The teleop.                                                             *)
(***************************************************************************)
Full(inbox) == Len(inbox) = Depth

Post(inbox, m) == Append(IF Full(inbox) THEN Tail(inbox) ELSE inbox, m)

\* setEnabled() publishes the request, pushing out the oldest if need be.
PostRequest(e) ==
  /\ requests' = Post(requests, [at |-> now, enable |-> e])
  /\ fault' = (fault \/ Full(requests))
  /\ released' = IF enabled /\ ~ e THEN now ELSE released

\* joyCallback().
JoyHeard ==
  /\ Hold
  /\ UNCHANGED << fired, inboxVars, moduleVars, released, fault >>

JoyRequests(e) ==
  /\ Press(e)
  /\ PostRequest(e)
  /\ UNCHANGED << fired, commands, moduleVars >>

\* publishCommands(), each time the wall timer fires: commands, or the release
\* of the watchdog, or nothing at all.
NextFiring == fired + Period

TimerFires == now = NextFiring /\ fired' = now

TimerCommands ==
  /\ TimerFires
  /\ Command
  /\ commands' = Post(commands, [at |-> now, joy |-> last_joy])
  /\ fault' = (fault \/ Full(commands))
  /\ UNCHANGED << requests, moduleVars, released >>

TimerReleases ==
  /\ TimerFires
  /\ Release
  /\ PostRequest(FALSE)
  /\ UNCHANGED << commands, moduleVars >>

TimerIdles ==
  /\ TimerFires
  /\ ~ enabled
  /\ UNCHANGED << switchVars, inboxVars, moduleVars, released, fault >>

\* The process is killed, and started again.
TeleopDies ==
  /\ last_joy' = 0 /\ rested' = FALSE /\ enabled' = FALSE
  /\ fired' = now
  /\ released' = IF enabled THEN now ELSE released
  /\ fault' = TRUE
  /\ UNCHANGED << now, sent, inboxVars, moduleVars >>

(***************************************************************************)
(* roscco_node and the modules.                                            *)
(***************************************************************************)
Heed(joy) == heard' = now /\ followed' = joy

\* A module that is not enabled takes no notice of a command.
TakeCommand ==
  /\ commands # << >>
  /\ commands' = Tail(commands)
  /\ IF engaged THEN Heed(Head(commands).joy) ELSE UNCHANGED << heard, followed >>
  /\ UNCHANGED << switchVars, fired, requests, engaged, released, fault >>

\* oscc_enable() or oscc_disable(); the former changes nothing once enabled.
Switch(e) ==
  /\ engaged' = e
  /\ IF e /\ ~ engaged THEN Heed(Head(requests).at) ELSE UNCHANGED << heard, followed >>

TakeRequest ==
  /\ requests # << >>
  /\ requests' = Tail(requests)
  /\ Switch(Head(requests).enable)
  /\ UNCHANGED << switchVars, fired, commands, released, fault >>

\* The network loses a message; the OSCC call for it fails; or the bridge dies,
\* and with it all that waits, one message after the other.  A call that fails
\* half-way has switched some module, and is as good as done; or it has left
\* some module enabled, and is as good as lost.
CommandLost ==
  /\ commands # << >>
  /\ commands' = Tail(commands)
  /\ fault' = TRUE
  /\ UNCHANGED << switchVars, fired, requests, moduleVars, released >>

RequestLost ==
  /\ requests # << >>
  /\ requests' = Tail(requests)
  /\ fault' = TRUE
  /\ UNCHANGED << switchVars, fired, commands, moduleVars, released >>

\* The driver overrides them, or they have waited long enough.
ModulesDisable ==
  /\ engaged
  /\ engaged' = FALSE
  /\ UNCHANGED << switchVars, fired, inboxVars, heard, followed, released, fault >>

(***************************************************************************)
(* Time passes unless something is due: the timer, a message that has      *)
(* waited for Latency, or the modules' own time-out.                       *)
(***************************************************************************)
Overdue(inbox) == \E i \in 1 .. Len(inbox) : now - inbox[i].at >= Latency
ModulesDue == engaged /\ now - heard >= ModuleTimeout

Tick ==
  /\ now < NextFiring
  /\ ~ Overdue(commands) /\ ~ Overdue(requests)
  /\ ~ ModulesDue
  /\ Clock
  /\ UNCHANGED << fired, inboxVars, moduleVars, released, fault >>

Teleop ==
  \/ JoyHeard \/ JoyRequests(TRUE) \/ JoyRequests(FALSE)
  \/ TimerCommands \/ TimerReleases \/ TimerIdles \/ TeleopDies

Car == TakeCommand \/ TakeRequest \/ CommandLost \/ RequestLost \/ ModulesDisable

Next == Teleop \/ Car \/ Tick

Spec == Init /\ [][Next]_vars

-----------------------------------------------------------------------------
(* Properties. *)

Moment == 0 .. MaxTime
CommandMessage == [at : Moment, joy : Moment]
RequestMessage == [at : Moment, enable : BOOLEAN]

\* Types of the variables.
TypeOK ==
  /\ now \in 1 .. MaxTime /\ last_joy \in Moment /\ sent \in Moment
  /\ rested \in BOOLEAN /\ enabled \in BOOLEAN
  /\ fired \in Moment
  /\ commands \in Seq(CommandMessage)
  /\ requests \in Seq(RequestMessage)
  /\ engaged \in BOOLEAN /\ heard \in 0 .. now /\ followed \in Moment
  /\ released \in Moment /\ fault \in BOOLEAN

\* Whatever the car does, the driver asked for it recently: when messages are
\* lost or overtake each other, calls fail, or the teleop dies, the input the
\* modules still follow is never older than the three time limits together.
FollowedIsRecent ==
  engaged => now - followed <= JoyTimeout + Latency + ModuleTimeout

\* Once the teleop has given control up, by BACK, by its watchdog or by dying,
\* the modules stop within the time limits that remain, even when every
\* message about it is lost and an enable is still on its way.
ReleaseStops ==
  ~ enabled /\ engaged => now - released <= Latency + ModuleTimeout

\* As long as nothing is lost the modules never time out: the timer's period
\* keeps them alive while control is enabled, and a release reaches them first
\* (roscco_teleop.cpp:71, "Must stay above 5 Hz").
NoNuisanceTimeout ==
  Period + Latency < ModuleTimeout /\ ~ fault => ~ ModulesDue

\* As long as nothing is lost, a pad that falls silent stops the car without
\* the help of the modules' own time-out: its watchdog is checked at the next
\* firing of the timer, and the disable it publishes is on its way for Latency.
SilenceStops ==
  ~ fault /\ engaged => now - last_joy <= JoyTimeout + Period + Latency

\* No message outstays its limit.  A command was fresh when it was published;
\* once control has been given up (at r), no later command or enable is waiting.
CommandTimely(m, t, e, r) ==
  /\ m.at <= t /\ t <= m.at + Latency
  /\ m.at <= m.joy + JoyTimeout
  /\ e \/ m.at <= r

RequestTimely(m, t, e, r) ==
  /\ m.at <= t /\ t <= m.at + Latency
  /\ e \/ ~ m.enable \/ m.at <= r

ModulesTimely ==
  engaged => /\ now <= heard + ModuleTimeout
             /\ heard <= followed + JoyTimeout + Latency
             /\ enabled \/ heard <= released + Latency

\* What keeps the two bounds: all that is waiting, and all that the modules
\* have heeded, is in time and not younger than the latest release.
WireInvariant ==
  /\ TypeOK
  /\ \A i \in 1 .. Len(commands) : CommandTimely(commands[i], now, enabled, released)
  /\ \A i \in 1 .. Len(requests) : RequestTimely(requests[i], now, enabled, released)
  /\ ModulesTimely

=============================================================================
