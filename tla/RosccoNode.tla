------------------------------ MODULE RosccoNode ------------------------------
(***************************************************************************)
(* The life of roscco_node (src/roscco_node.cpp): main() opens the CAN     *)
(* channel, constructs OsccToRos and RosToOscc, spins until SIGINT,        *)
(* disables the modules, destroys both and closes the channel.  Round it   *)
(* are the nodes that publish, the modules, and whoever kills the process  *)
(* and starts it again.  RosToOscc's callbacks are those of its module.    *)
(*                                                                         *)
(* An OSCC report handler may run whenever it is attached, in any stage.   *)
(***************************************************************************)
EXTENDS Integers, Sequences

CONSTANTS
  Channel, LoRange, HiRange, Value, NonFinite, Depth,  \* as in RosToOscc
  Order  \* the kinds of report, as OsccToRos subscribes to them

Report == {Order[i] : i \in 1 .. Len(Order)}

ASSUME OrderAssumption == Order \in Seq(STRING) /\ Order # << >>

VARIABLES
  lo, hi, inbox, bus, asked, enabled, wanted, failed,  \* as in RosToOscc
  stage,        \* where main() is
  done,         \* in "attaching" and "detaching": subscriptions dealt with
  attached,     \* kinds of report whose handler OSCC calls
  refused,      \* history: kinds for which OSCC refused a subscription
  interrupted,  \* SIGINT has come
  unclean       \* history: the modules may have been left enabled

Bridge == INSTANCE RosToOscc

ASSUME BridgeAssumption == Bridge!LimitsAssumption

bridgeVars == << lo, hi, inbox, bus, asked, wanted, failed >>
mainVars == << stage, done, attached, refused, unclean >>
vars == << bridgeVars, enabled, mainVars, interrupted >>

Gone == {"ended", "dead"}
Constructing == {"starting", "attaching", "subscribing"}
Subscribed == {"spinning", "stopping", "detaching", "deafening"}
Stage == Gone \cup Constructing \cup Subscribed \cup {"closing"}

(***************************************************************************)
(* Mutants: plausible bugs in the definitions below.                       *)
(***************************************************************************)
AllButOneDone == done = Len(Order) - 1
SpinForEver == FALSE
DetachForgotten ==
  /\ stage = "detaching" /\ stage' = "deafening"
  /\ UNCHANGED << bridgeVars, enabled, done, attached, refused, interrupted, unclean >>

-----------------------------------------------------------------------------
Init ==
  /\ Bridge!Init
  /\ stage = "starting" /\ done = 0
  /\ attached = {} /\ refused = {}
  /\ interrupted = FALSE /\ unclean = FALSE

Main(from, to) == stage = from /\ stage' = to

(***************************************************************************)
(* main(), up to spin().                                                   *)
(***************************************************************************)
OpenSucceeds ==
  /\ Main("starting", "attaching")
  /\ UNCHANGED << bridgeVars, enabled, done, attached, refused, interrupted, unclean >>

\* Return 1.
OpenFails ==
  /\ Main("starting", "ended")
  /\ UNCHANGED << bridgeVars, enabled, done, attached, refused, interrupted, unclean >>

\* OsccToRos's constructor subscribes to one kind of report after the other
\* and does not look at the results.
Kind == Order[done + 1]
AllDone == done = Len(Order)

Attach ==
  /\ stage = "attaching" /\ ~ AllDone
  /\ done' = done + 1
  /\ \/ attached' = attached \cup {Kind} /\ UNCHANGED refused
     \/ refused' = refused \cup {Kind} /\ UNCHANGED attached
  /\ UNCHANGED << bridgeVars, enabled, stage, interrupted, unclean >>

AttachEnds ==
  /\ AllDone
  /\ Main("attaching", "subscribing")
  /\ UNCHANGED << bridgeVars, enabled, done, attached, refused, interrupted, unclean >>

\* RosToOscc's constructor: from now on messages are kept for it.
Subscribe ==
  /\ Main("subscribing", "spinning")
  /\ UNCHANGED << bridgeVars, enabled, done, attached, refused, interrupted, unclean >>

\* A parameter out of its range throws out of a constructor and of main(): the
\* node's own, ObdFeedback's before the first subscription, or RosToOscc's.
ParameterRejected ==
  /\ stage \in Constructing
  /\ stage = "attaching" => done = 0
  /\ stage' = "dead"
  /\ UNCHANGED << bridgeVars, enabled, done, attached, refused, interrupted, unclean >>

(***************************************************************************)
(* spin(): the callbacks of RosToOscc run, until it notices SIGINT.        *)
(***************************************************************************)
Callback ==
  /\ stage = "spinning"
  /\ \/ \E c \in Channel : Bridge!CommandCallback(c) \/ Bridge!CommandFails(c)
     \/ Bridge!EnableDisableCallback
     \/ Bridge!EnableDisableFails
  /\ UNCHANGED << mainVars, interrupted >>

SpinNotices == interrupted

SpinReturns ==
  /\ SpinNotices
  /\ Main("spinning", "stopping")
  /\ UNCHANGED << bridgeVars, enabled, done, attached, refused, interrupted, unclean >>

(***************************************************************************)
(* main(), after spin().  A failing oscc_disable() is only logged.         *)
(***************************************************************************)
Disable ==
  /\ Main("stopping", "detaching")
  /\ Bridge!SwitchModules(FALSE)
  /\ unclean' = FALSE
  /\ done' = 0
  /\ UNCHANGED << bridgeVars, attached, refused, interrupted >>

DisableFails ==
  /\ Main("stopping", "detaching")
  /\ \E reached \in SUBSET Channel : enabled' = enabled \ reached
  /\ unclean' = TRUE
  /\ done' = 0
  /\ UNCHANGED << bridgeVars, attached, refused, interrupted >>

\* ~OsccToRos(): the result is not looked at here either.
Detach ==
  /\ stage = "detaching" /\ ~ AllDone
  /\ done' = done + 1
  /\ \/ attached' = attached \ {Kind} /\ UNCHANGED refused
     \/ refused' = refused \cup {Kind} /\ UNCHANGED attached
  /\ UNCHANGED << bridgeVars, enabled, stage, interrupted, unclean >>

DetachEnds ==
  /\ AllDone
  /\ Main("detaching", "deafening")
  /\ UNCHANGED << bridgeVars, enabled, done, attached, refused, interrupted, unclean >>

\* subscriber.reset(): what still waits is never taken.
Unsubscribe ==
  /\ Main("deafening", "closing")
  /\ inbox' = Bridge!NoMessages
  /\ UNCHANGED << lo, hi, bus, asked, wanted, failed, enabled, done, attached, refused,
                  interrupted, unclean >>

\* oscc_close(), whatever it returns, and return 0.
Close ==
  /\ Main("closing", "ended")
  /\ UNCHANGED << bridgeVars, enabled, done, attached, refused, interrupted, unclean >>

(***************************************************************************)
(* The world round it.                                                     *)
(***************************************************************************)
Publish ==
  /\ stage \in Subscribed
  /\ \/ \E c \in Channel : \E v \in Bridge!Payload(c) : Bridge!PublishCommand(c, v)
     \/ \E e \in BOOLEAN : Bridge!PublishEnableDisable(e)
  /\ UNCHANGED << mainVars, interrupted >>

ModuleDisables ==
  /\ \E c \in Channel : Bridge!ModuleDisables(c)
  /\ UNCHANGED << mainVars, interrupted >>

Interrupt ==
  /\ stage \notin Gone
  /\ interrupted' = TRUE
  /\ UNCHANGED << bridgeVars, enabled, mainVars >>

\* SIGKILL, a crash, or an exception out of a callback.
Die ==
  /\ stage \notin Gone
  /\ stage' = "dead"
  /\ unclean' = (unclean \/ stage \in {"spinning", "stopping"})
  /\ UNCHANGED << bridgeVars, enabled, done, attached, refused, interrupted >>

\* A new process, with limits of its own; the modules are what they were.
Restart ==
  /\ stage \in Gone /\ stage' = "starting"
  /\ lo' \in Bridge!Limits(LoRange) /\ hi' \in Bridge!Limits(HiRange)
  /\ inbox' = Bridge!NoMessages
  /\ bus' = [c \in Channel |-> << >>] /\ asked' = bus'
  /\ wanted' = FALSE /\ failed' = FALSE
  /\ done' = 0 /\ attached' = {} /\ refused' = {} /\ interrupted' = FALSE
  /\ UNCHANGED << enabled, unclean >>

MainThread ==
  \/ OpenSucceeds \/ OpenFails \/ Attach \/ AttachEnds \/ Subscribe
  \/ ParameterRejected \/ SpinReturns \/ Disable \/ DisableFails
  \/ Detach \/ DetachEnds \/ Unsubscribe \/ Close

Next ==
  \/ MainThread \/ Callback
  \/ Publish \/ ModuleDisables \/ Interrupt \/ Die \/ Restart

Spec == Init /\ [][Next]_vars

(***************************************************************************)
(* main() runs on: no call in it waits for another process, and spin()     *)
(* looks for SIGINT between two callbacks.  Without a process to command   *)
(* them the modules give up after 200 ms.  Nothing else is assumed; in     *)
(* particular nobody need restart the node or stop publishing.             *)
(***************************************************************************)
ModulesGiveUp == stage \in Gone /\ ModuleDisables

FairSpec == Spec /\ WF_vars(MainThread) /\ WF_vars(ModulesGiveUp)

-----------------------------------------------------------------------------
(* Properties. *)

\* Types of the variables; in particular no step of main() is out of its place
\* in the list of subscriptions.
TypeOK ==
  /\ Bridge!TypeOK
  /\ stage \in Stage
  /\ done \in 0 .. Len(Order)
  /\ attached \subseteq Report /\ refused \subseteq Report
  /\ interrupted \in BOOLEAN /\ unclean \in BOOLEAN

\* Outside spin() and the instant after it, a module actuates only if an
\* earlier process died, or failed to disable it: no enable that still waits,
\* or is published while main() winds down, undoes the oscc_disable() of
\* roscco_node.cpp:49 or is found by the next process.
OrderlyExitIsOff ==
  enabled # {} /\ stage \notin {"spinning", "stopping"} => unclean

\* A module is only switched on by a process that watches every report it
\* could subscribe to (roscco_node.cpp:42, "start publishing reports before
\* accepting commands"), and never once spin() has returned.
SwitchedOnUnderWatch ==
  [][\/ enabled' \subseteq enabled
     \/ stage = "spinning" /\ attached \cup refused = Report]_vars

\* No handler is left attached when the publishers are gone, unless OSCC
\* refused to let go of it (oscc_to_ros.cpp:110).
DetachedBeforeDestroyed ==
  stage \in {"deafening", "closing"} => attached \subseteq refused

\* SIGINT stops the car: by the oscc_disable() at the end of main() or, when it
\* fails or the process dies on the way to it, by the modules themselves,
\* however many messages still wait or arrive.
InterruptStops == interrupted ~> enabled = {} \/ stage = "starting"

=============================================================================
