--------------------------- MODULE RosccoNodeProofs ---------------------------
(***************************************************************************)
(* Proofs about RosccoNode for every list of reports, every set of modules *)
(* and all limits, depths and values of RosToOscc.                         *)
(***************************************************************************)
EXTENDS RosccoNode, TLAPS

\* What main() has done at each stage of its way.
Progress ==
  /\ stage \in Stage /\ done \in 0 .. Len(Order)
  /\ attached \subseteq Report /\ refused \subseteq Report
  /\ stage = "starting" => done = 0
  /\ stage = "attaching" => \A i \in 1 .. done : Order[i] \in attached \cup refused
  /\ stage \in {"subscribing", "spinning"} => attached \cup refused = Report
  /\ stage = "detaching" => \A i \in 1 .. done : Order[i] \in attached => Order[i] \in refused
  /\ DetachedBeforeDestroyed

Inv == Progress /\ OrderlyExitIsOff

LEMMA OrderFacts ==
  /\ Len(Order) \in Nat
  /\ \A i \in 1 .. Len(Order) : Order[i] \in Report
  /\ \A r \in Report : \E i \in 1 .. Len(Order) : r = Order[i]
BY OrderAssumption DEF Report

LEMMA InitInv == Init => Inv
<1> SUFFICES ASSUME Init
             PROVE  Inv
  OBVIOUS
<1>1. enabled = {}
  BY DEF Init, Bridge!Init
<1>2. stage = "starting" /\ done = 0 /\ attached = {} /\ refused = {}
  BY DEF Init
<1>3. Progress
  BY <1>2, OrderFacts DEF Progress, Stage, Gone, Constructing, Subscribed,
     DetachedBeforeDestroyed
<1> QED
  BY <1>1, <1>3 DEF Inv, OrderlyExitIsOff

\* The steps of main() that only move on, and those of an exit.
LEMMA MoveInv ==
  ASSUME Inv, OpenSucceeds \/ OpenFails \/ AttachEnds \/ Subscribe \/ ParameterRejected
              \/ SpinReturns \/ DetachEnds \/ Unsubscribe \/ Close \/ Die
  PROVE  Inv'
<1> USE DEF Main
<1>1. UNCHANGED << enabled, done, attached, refused >>
  BY DEF OpenSucceeds, OpenFails, AttachEnds, Subscribe, ParameterRejected, SpinReturns,
     DetachEnds, Unsubscribe, Close, Die
<1>2. CASE OpenSucceeds
  BY <1>1, <1>2 DEF OpenSucceeds, Inv, Progress, Stage, Gone, Constructing, Subscribed,
     DetachedBeforeDestroyed, OrderlyExitIsOff
<1>3. CASE OpenFails \/ ParameterRejected \/ Close
  BY <1>1, <1>3 DEF OpenFails, ParameterRejected, Close, Inv, Progress, Stage, Gone,
     Constructing, Subscribed, DetachedBeforeDestroyed, OrderlyExitIsOff
<1>4. CASE AttachEnds
  <2>1. stage = "attaching" /\ stage' = "subscribing" /\ done = Len(Order) /\ unclean' = unclean
    BY <1>4 DEF AttachEnds, AllDone
  <2>2. Report \subseteq attached \cup refused
    BY <2>1, OrderFacts DEF Inv, Progress
  <2> QED
    BY <1>1, <2>1, <2>2 DEF Inv, Progress, Stage, Gone, Constructing, Subscribed,
       DetachedBeforeDestroyed, OrderlyExitIsOff
<1>5. CASE Subscribe \/ SpinReturns
  BY <1>1, <1>5 DEF Subscribe, SpinReturns, Inv, Progress, Stage, Gone, Constructing,
     Subscribed, DetachedBeforeDestroyed, OrderlyExitIsOff
<1>6. CASE DetachEnds
  <2>1. stage = "detaching" /\ stage' = "deafening" /\ done = Len(Order) /\ unclean' = unclean
    BY <1>6 DEF DetachEnds, AllDone
  <2>2. attached \subseteq refused
    BY <2>1, OrderFacts DEF Inv, Progress
  <2> QED
    BY <1>1, <2>1, <2>2 DEF Inv, Progress, Stage, Gone, Constructing, Subscribed,
       DetachedBeforeDestroyed, OrderlyExitIsOff
<1>7. CASE Unsubscribe
  BY <1>1, <1>7 DEF Unsubscribe, Inv, Progress, Stage, Gone, Constructing, Subscribed,
     DetachedBeforeDestroyed, OrderlyExitIsOff
<1>8. CASE Die
  BY <1>1, <1>8 DEF Die, Inv, Progress, Stage, Gone, Constructing, Subscribed,
     DetachedBeforeDestroyed, OrderlyExitIsOff
<1> QED
  BY <1>2, <1>3, <1>4, <1>5, <1>6, <1>7, <1>8

LEMMA AttachInv ==
  ASSUME Inv, Attach
  PROVE  Inv'
<1>1. /\ stage = "attaching" /\ stage' = stage /\ done # Len(Order) /\ done' = done + 1
      /\ enabled' = enabled /\ unclean' = unclean
      /\ attached' \cup refused' = attached \cup refused \cup {Order[done + 1]}
      /\ attached' \subseteq attached \cup {Order[done + 1]}
      /\ refused' \subseteq refused \cup {Order[done + 1]}
  BY DEF Attach, AllDone, Kind
<1>2. done + 1 \in 1 .. Len(Order) /\ Order[done + 1] \in Report /\ done \in Nat
  BY <1>1, OrderFacts DEF Inv, Progress
<1>3. done' \in 0 .. Len(Order)
  BY <1>1, <1>2
<1>4. ASSUME NEW i \in 1 .. done'
      PROVE  Order[i] \in attached' \cup refused'
  <2>1. i \in 1 .. done \/ i = done + 1
    BY <1>1, <1>2
  <2> QED
    BY <1>1, <2>1 DEF Inv, Progress
<1>5. attached' \subseteq Report /\ refused' \subseteq Report
  BY <1>1, <1>2 DEF Inv, Progress
<1> QED
  BY <1>1, <1>3, <1>4, <1>5 DEF Inv, Progress, DetachedBeforeDestroyed, OrderlyExitIsOff

LEMMA DetachInv ==
  ASSUME Inv, Detach
  PROVE  Inv'
<1>1. /\ stage = "detaching" /\ stage' = stage /\ done # Len(Order) /\ done' = done + 1
      /\ enabled' = enabled /\ unclean' = unclean
      /\ attached' \subseteq attached
      /\ refused \subseteq refused' /\ refused' \subseteq refused \cup {Order[done + 1]}
      /\ Order[done + 1] \in attached' => Order[done + 1] \in refused'
  BY DEF Detach, AllDone, Kind
<1>2. done + 1 \in 1 .. Len(Order) /\ Order[done + 1] \in Report /\ done \in Nat
  BY <1>1, OrderFacts DEF Inv, Progress
<1>3. done' \in 0 .. Len(Order)
  BY <1>1, <1>2
<1>4. ASSUME NEW i \in 1 .. done', Order[i] \in attached'
      PROVE  Order[i] \in refused'
  <2>1. i \in 1 .. done \/ i = done + 1
    BY <1>1, <1>2
  <2> QED
    BY <1>1, <1>4, <2>1 DEF Inv, Progress
<1>5. attached' \subseteq Report /\ refused' \subseteq Report
  BY <1>1, <1>2 DEF Inv, Progress
<1> QED
  BY <1>1, <1>3, <1>4, <1>5 DEF Inv, Progress, DetachedBeforeDestroyed, OrderlyExitIsOff

\* oscc_disable() succeeds, or main() knows that it failed.
LEMMA DisableInv ==
  ASSUME Inv, Disable \/ DisableFails
  PROVE  Inv'
<1>1. /\ stage' = "detaching" /\ done' = 0 /\ UNCHANGED << attached, refused >>
      /\ enabled' = {} \/ unclean'
  BY DEF Disable, DisableFails, Main, Bridge!SwitchModules
<1>2. 0 \in 0 .. Len(Order) /\ \A i \in 1 .. 0 : FALSE
  BY OrderFacts
<1> QED
  BY <1>1, <1>2 DEF Inv, Progress, Stage, Subscribed, DetachedBeforeDestroyed, OrderlyExitIsOff

\* The executor's callbacks, and all that happens outside the process.
LEMMA WorldInv ==
  ASSUME Inv, Callback \/ Publish \/ ModuleDisables \/ Interrupt \/ UNCHANGED vars
  PROVE  Inv'
<1>1. UNCHANGED mainVars
  BY DEF Callback, Publish, ModuleDisables, Interrupt, vars
<1>2. stage = "spinning" \/ enabled' \subseteq enabled
  BY DEF Callback, Publish, ModuleDisables, Interrupt, vars, Bridge!PublishCommand,
     Bridge!PublishEnableDisable, Bridge!ModuleDisables, Bridge!moduleVars
<1> QED
  BY <1>1, <1>2 DEF mainVars, Inv, Progress, DetachedBeforeDestroyed, OrderlyExitIsOff

LEMMA RestartInv ==
  ASSUME Inv, Restart
  PROVE  Inv'
<1>1. /\ stage \in Gone /\ stage' = "starting"
      /\ done' = 0 /\ attached' = {} /\ refused' = {}
      /\ UNCHANGED << enabled, unclean >>
  BY DEF Restart
<1> QED
  BY <1>1, OrderFacts DEF Inv, Progress, Stage, Gone, Constructing, DetachedBeforeDestroyed,
     OrderlyExitIsOff

LEMMA NextInv == Inv /\ [Next]_vars => Inv'
BY MoveInv, AttachInv, DetachInv, DisableInv, WorldInv, RestartInv DEF Next, MainThread

LEMMA InvAlways == Spec => []Inv
BY InitInv, NextInv, PTL DEF Spec

-----------------------------------------------------------------------------
\* After roscco_node.cpp:49 no module actuates unless oscc_disable() failed or a
\* process died, whatever is published while main() winds down or starts anew.
THEOREM OrderlyExit == Spec => []OrderlyExitIsOff
<1>1. Inv => OrderlyExitIsOff
  BY DEF Inv
<1> QED
  BY <1>1, InvAlways, PTL

\* ~OsccToRos() has taken back every handler that OSCC let go of before the
\* publishers are destroyed.
THEOREM Detached == Spec => []DetachedBeforeDestroyed
<1>1. Inv => DetachedBeforeDestroyed
  BY DEF Inv, Progress
<1> QED
  BY <1>1, InvAlways, PTL

\* Only the callbacks of a spinning node switch a module on, after OsccToRos's
\* constructor has tried to subscribe to every report.
THEOREM UnderWatch == Spec => SwitchedOnUnderWatch
<1>1. Inv /\ [Next]_vars =>
        [\/ enabled' \subseteq enabled
         \/ stage = "spinning" /\ attached \cup refused = Report]_vars
  <2> SUFFICES ASSUME Inv, Next, ~ (enabled' \subseteq enabled)
               PROVE  stage = "spinning" /\ attached \cup refused = Report
    OBVIOUS
  <2>1. Callback
    BY DEF Next, MainThread, OpenSucceeds, OpenFails, Attach, AttachEnds, Subscribe,
       ParameterRejected, SpinReturns, Disable, DisableFails, Detach, DetachEnds,
       Unsubscribe, Close, Publish, ModuleDisables, Interrupt, Die, Restart,
       Bridge!SwitchModules, Bridge!PublishCommand, Bridge!PublishEnableDisable,
       Bridge!ModuleDisables, Bridge!moduleVars
  <2>2. stage = "spinning"
    BY <2>1 DEF Callback
  <2> QED
    BY <2>2 DEF Inv, Progress
<1> QED
  BY <1>1, InvAlways, PTL DEF Spec, SwitchedOnUnderWatch

-----------------------------------------------------------------------------
(* RosToOscc within the node: what is proved of it alone holds here too,   *)
(* across deaths and restarts, except that a new process may find modules  *)
(* enabled that no message has enabled.                                    *)

Proved == INSTANCE RosToOsccProofs

LEMMA SameAssumption == Proved!LimitsAssumption
BY BridgeAssumption DEF Proved!LimitsAssumption, Bridge!LimitsAssumption, Proved!Topic, Bridge!Topic

LEMMA SameInit == Bridge!Init => Proved!Init
BY DEF Bridge!Init, Proved!Init, Bridge!Limits, Proved!Limits, Bridge!NoMessages,
   Proved!NoMessages, Bridge!Topic, Proved!Topic

LEMMA SameNext == Bridge!Next => Proved!Next
BY DEF Bridge!Next, Proved!Next, Bridge!Payload, Proved!Payload,
   Bridge!PublishCommand, Proved!PublishCommand, Bridge!CommandCallback,
   Proved!CommandCallback, Bridge!CommandFails, Proved!CommandFails,
   Bridge!ModuleDisables, Proved!ModuleDisables, Bridge!PublishEnableDisable,
   Proved!PublishEnableDisable, Bridge!EnableDisableCallback,
   Proved!EnableDisableCallback, Bridge!EnableDisableFails, Proved!EnableDisableFails,
   Bridge!Take, Proved!Take, Bridge!Clamp, Proved!Clamp, Bridge!StdClamp, Proved!StdClamp,
   Bridge!Finite, Proved!Finite, Bridge!KeepLast, Proved!KeepLast, Bridge!SwitchModules,
   Proved!SwitchModules, Bridge!limitVars, Proved!limitVars, Bridge!moduleVars,
   Proved!moduleVars, Bridge!requestVars, Proved!requestVars

LEMMA SameProperties ==
  /\ Proved!TypeOK => Bridge!TypeOK
  /\ Proved!DisableSettles <=> Bridge!DisableSettles
  /\ Proved!BusIsNearestAllowed => Bridge!BusIsNearestAllowed
<1>1. Proved!TypeOK => Bridge!TypeOK
  BY DEF Proved!TypeOK, Bridge!TypeOK, Proved!Topic, Bridge!Topic, Proved!Payload, Bridge!Payload
<1>2. Proved!DisableSettles <=> Bridge!DisableSettles
  BY DEF Proved!DisableSettles, Bridge!DisableSettles
<1>3. Proved!BusIsNearestAllowed => Bridge!BusIsNearestAllowed
  BY DEF Proved!BusIsNearestAllowed, Bridge!BusIsNearestAllowed, Proved!Distance, Bridge!Distance
<1> QED
  BY <1>1, <1>2, <1>3

\* While spin() runs, and whenever the world round the node takes a step, it is
\* a step of RosToOscc.
LEMMA BridgeSteps ==
  ASSUME Callback \/ Publish \/ ModuleDisables
  PROVE  Bridge!Next /\ unclean' = unclean
<1>1. CASE Callback
  BY <1>1 DEF Callback, Bridge!Next, mainVars
<1>2. CASE Publish
  BY <1>2 DEF Publish, Bridge!Next, mainVars
<1>3. CASE ModuleDisables
  BY <1>3 DEF ModuleDisables, Bridge!Next, mainVars
<1> QED
  BY <1>1, <1>2, <1>3

\* A disable is obeyed once it has been taken (RosToOscc's DisableSettles), as
\* long as no earlier process has left the modules enabled.
RequestsObeyed == ~ unclean => Bridge!DisableSettles

BridgeInv == Proved!Inv /\ RequestsObeyed

LEMMA InitBridge == Init => BridgeInv
<1> SUFFICES ASSUME Init
             PROVE  BridgeInv
  OBVIOUS
<1>1. Proved!Inv
  BY SameAssumption, SameInit, Proved!InitInv DEF Init
<1>2. enabled = {}
  BY DEF Init, Bridge!Init
<1> QED
  BY <1>1, <1>2 DEF BridgeInv, RequestsObeyed, Bridge!DisableSettles

\* Steps of the world and of spin().
LEMMA WorldBridge ==
  ASSUME BridgeInv, Callback \/ Publish \/ ModuleDisables
  PROVE  BridgeInv'
<1>1. Proved!Next /\ unclean' = unclean
  BY BridgeSteps, SameNext
<1>2. Proved!Inv'
  BY <1>1, SameAssumption, Proved!NextInv DEF BridgeInv
<1>3. Proved!Inv /\ Proved!DisableSettles => Proved!DisableSettles'
  BY <1>1, SameAssumption, Proved!NextSettles
<1>4. Proved!DisableSettles' <=> Bridge!DisableSettles'
  BY DEF Proved!DisableSettles, Bridge!DisableSettles
<1> QED
  BY <1>1, <1>2, <1>3, <1>4, SameProperties DEF BridgeInv, RequestsObeyed

\* Steps of main() that leave RosToOscc alone.
LEMMA QuietBridge ==
  ASSUME BridgeInv, UNCHANGED << bridgeVars, enabled >>, unclean => unclean'
  PROVE  BridgeInv'
<1>1. UNCHANGED << lo, hi, inbox, bus, asked, enabled, wanted, failed >>
  BY DEF bridgeVars
<1>2. UNCHANGED Proved!vars
  BY <1>1 DEF Proved!vars, Proved!limitVars, Proved!moduleVars, Proved!requestVars
<1>3. Proved!Inv'
  BY <1>2, SameAssumption, Proved!NextInv DEF BridgeInv
<1> QED
  BY <1>1, <1>3 DEF BridgeInv, RequestsObeyed, Bridge!DisableSettles

\* main() disables the modules, or fails to.
LEMMA DisableBridge ==
  ASSUME BridgeInv, Disable \/ DisableFails
  PROVE  BridgeInv'
<1>1. /\ UNCHANGED << lo, hi, inbox, bus, asked, wanted, failed >>
      /\ enabled' \subseteq enabled
      /\ enabled' = {} \/ unclean'
  BY DEF Disable, DisableFails, Bridge!SwitchModules, bridgeVars
<1>2. /\ Proved!LimitsOK' /\ Proved!BusOK'
      /\ Proved!InboxOK'
  BY <1>1 DEF BridgeInv, Proved!Inv, Proved!LimitsOK, Proved!InboxOK, Proved!BusOK,
     Proved!ClampedOK
<1>3. Proved!RequestsOK'
  BY <1>1 DEF BridgeInv, Proved!Inv, Proved!RequestsOK, Proved!ED
<1> QED
  BY <1>1, <1>2, <1>3 DEF BridgeInv, Proved!Inv, RequestsObeyed, Bridge!DisableSettles

\* No message waits once there is no subscription.
LEMMA NoMessagesOK ==
  ASSUME inbox' = Bridge!NoMessages
  PROVE  Proved!InboxOK' /\ inbox'[Proved!ED] = << >>
<1>1. inbox' = [t \in Proved!Topic |-> << >>]
  BY DEF Bridge!NoMessages, Bridge!Topic, Proved!Topic
<1>2. \A t \in Proved!Topic : Depth[t] \in Nat
  BY SameAssumption DEF Proved!LimitsAssumption
<1>3. Len(<< >>) = 0 /\ \A S : << >> \in Seq(S)
  OBVIOUS
<1>4. \A t \in Proved!Topic : inbox'[t] = << >> /\ Len(inbox'[t]) <= Depth[t]
  BY <1>1, <1>2, <1>3
<1>5. \A t \in Proved!Topic : inbox'[t] \in Seq(Proved!Payload(t))
  BY <1>3, <1>4, Zenon
<1>6. inbox' = [t \in Proved!Topic |-> inbox'[t]]
  BY <1>1
<1>7. Proved!InboxOK'
  BY <1>4, <1>5, <1>6 DEF Proved!InboxOK
<1>8. Proved!ED \in Proved!Topic
  BY DEF Proved!ED, Proved!Topic
<1> QED
  BY <1>4, <1>7, <1>8

LEMMA UnsubscribeBridge ==
  ASSUME Inv, BridgeInv, Unsubscribe
  PROVE  BridgeInv'
<1>1. /\ inbox' = Bridge!NoMessages /\ stage = "deafening"
      /\ UNCHANGED << lo, hi, bus, asked, wanted, failed, enabled, unclean >>
  BY DEF Unsubscribe, Main
<1>2. enabled = {} \/ unclean
  BY <1>1 DEF Inv, OrderlyExitIsOff
<1>3. Proved!InboxOK' /\ inbox'[Proved!ED] = << >>
  BY <1>1, NoMessagesOK
<1>4. Proved!LimitsOK' /\ Proved!BusOK' /\ Proved!RequestsOK'
  BY <1>1, <1>3 DEF BridgeInv, Proved!Inv, Proved!LimitsOK, Proved!BusOK, Proved!ClampedOK,
     Proved!RequestsOK
<1> QED
  BY <1>1, <1>2, <1>3, <1>4 DEF BridgeInv, Proved!Inv, RequestsObeyed, Bridge!DisableSettles

\* A new process, new limits, and modules that may still be enabled.
LEMMA RestartBridge ==
  ASSUME Inv, BridgeInv, Restart
  PROVE  BridgeInv'
<1>1. /\ inbox' = Bridge!NoMessages /\ stage \in Gone
      /\ lo' \in Bridge!Limits(LoRange) /\ hi' \in Bridge!Limits(HiRange)
      /\ bus' = [c \in Channel |-> << >>] /\ asked' = [c \in Channel |-> << >>]
      /\ wanted' = FALSE /\ failed' = FALSE
      /\ UNCHANGED << enabled, unclean >>
  BY DEF Restart
<1>2. enabled = {} \/ unclean
  BY <1>1 DEF Inv, OrderlyExitIsOff, Gone
<1>3. Proved!InboxOK' /\ inbox'[Proved!ED] = << >>
  BY <1>1, NoMessagesOK
<1>4. Proved!LimitsOK'
  <2>1. /\ lo' \in [Channel -> UNION {LoRange[c] : c \in Channel}]
        /\ hi' \in [Channel -> UNION {HiRange[c] : c \in Channel}]
        /\ \A c \in Channel : lo'[c] \in LoRange[c] /\ hi'[c] \in HiRange[c]
    BY <1>1 DEF Bridge!Limits
  <2>2. \A c \in Channel : lo'[c] \in Int /\ hi'[c] \in Int
    BY <2>1, SameAssumption DEF Proved!LimitsAssumption
  <2> QED
    BY <2>1, <2>2 DEF Proved!LimitsOK
<1>5. Proved!BusOK'
  BY <1>1 DEF Proved!BusOK, Proved!ClampedOK
<1>6. Proved!RequestsOK'
  BY <1>1, <1>3 DEF BridgeInv, Proved!Inv, Proved!RequestsOK
<1> QED
  BY <1>1, <1>2, <1>3, <1>4, <1>5, <1>6
  DEF BridgeInv, Proved!Inv, RequestsObeyed, Bridge!DisableSettles

LEMMA NextBridge == Inv /\ BridgeInv /\ [Next]_vars => BridgeInv'
<1> SUFFICES ASSUME Inv, BridgeInv, [Next]_vars
             PROVE  BridgeInv'
  OBVIOUS
<1>1. CASE OpenSucceeds \/ OpenFails \/ Attach \/ AttachEnds \/ Subscribe
           \/ ParameterRejected \/ SpinReturns \/ Detach \/ DetachEnds \/ Close
           \/ Interrupt \/ Die \/ UNCHANGED vars
  <2>1. UNCHANGED << bridgeVars, enabled >>
    BY <1>1 DEF OpenSucceeds, OpenFails, Attach, AttachEnds, Subscribe, ParameterRejected,
       SpinReturns, Detach, DetachEnds, Close, Interrupt, Die, vars
  <2>2. ~ Die => unclean' = unclean
    BY <1>1 DEF OpenSucceeds, OpenFails, Attach, AttachEnds, Subscribe, ParameterRejected,
       SpinReturns, Detach, DetachEnds, Close, Interrupt, vars, mainVars
  <2>3. Die /\ unclean => unclean'
    BY DEF Die
  <2> QED
    BY <2>1, <2>2, <2>3, QuietBridge
<1> QED
  BY <1>1, WorldBridge, DisableBridge, UnsubscribeBridge, RestartBridge DEF Next, MainThread

FlagsOK == interrupted \in BOOLEAN /\ unclean \in BOOLEAN

LEMMA NextFlags == FlagsOK /\ [Next]_vars => FlagsOK'
BY DEF FlagsOK, Next, MainThread, OpenSucceeds, OpenFails, Attach, AttachEnds, Subscribe,
   ParameterRejected, SpinReturns, Disable, DisableFails, Detach, DetachEnds, Unsubscribe,
   Close, Callback, Publish, ModuleDisables, Interrupt, Die, Restart, vars, mainVars

LEMMA FlagsAlways == Spec => []FlagsOK
<1>1. Init => FlagsOK
  BY DEF Init, FlagsOK
<1> QED
  BY <1>1, NextFlags, PTL DEF Spec

LEMMA BridgeAlways == Spec => [](Inv /\ BridgeInv)
<1>1. Init => Inv /\ BridgeInv
  BY InitInv, InitBridge
<1>2. (Inv /\ BridgeInv) /\ [Next]_vars => (Inv /\ BridgeInv)'
  BY NextInv, NextBridge
<1> QED
  BY <1>1, <1>2, PTL DEF Spec

-----------------------------------------------------------------------------
\* Types, RosToOscc's included, through every exit and restart of main().
THEOREM TypeCorrect == Spec => []TypeOK
<1>1. Inv /\ BridgeInv /\ FlagsOK => TypeOK
  <2> SUFFICES ASSUME Inv, BridgeInv, FlagsOK
               PROVE  TypeOK
    OBVIOUS
  <2>1. Bridge!TypeOK
    BY SameAssumption, SameProperties, Proved!InvTypes DEF BridgeInv
  <2> QED
    BY <2>1 DEF Inv, Progress, FlagsOK, TypeOK
<1> QED
  BY <1>1, BridgeAlways, FlagsAlways, PTL

\* Every process of roscco_node keeps to the limits it was started with, however
\* the one before it ended.
THEOREM NearestAcrossRestarts == Spec => []Bridge!BusIsNearestAllowed
<1>1. BridgeInv => Bridge!BusIsNearestAllowed
  BY SameAssumption, SameProperties, Proved!InvNearest DEF BridgeInv
<1> QED
  BY <1>1, BridgeAlways, PTL

\* The disable that was published last is obeyed in every process that did not
\* inherit enabled modules from a predecessor.
THEOREM DisableObeyed == Spec => []RequestsObeyed
<1>1. BridgeInv => RequestsObeyed
  BY DEF BridgeInv
<1> QED
  BY <1>1, BridgeAlways, PTL

=============================================================================
