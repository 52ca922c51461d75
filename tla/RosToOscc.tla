------------------------------ MODULE RosToOscc ------------------------------
(***************************************************************************)
(* RosToOscc (src/ros_to_oscc.cpp): hands the command topics to the OSCC   *)
(* API, each value clamped to the limits that were read once, when the     *)
(* node started.  Each topic is a keep-last subscription; the executor     *)
(* takes the waiting messages of different topics in any order.            *)
(*                                                                         *)
(* The API and the modules behind it are not part of the repository.  As   *)
(* the code uses them: a call succeeds, or returns a warning or an error,  *)
(* and then it may have reached some of the modules or none; a module may  *)
(* disable itself at any time (driver override, 200 ms without commands).  *)
(***************************************************************************)
EXTENDS Integers, Sequences

CONSTANTS
  Channel,    \* brake, steering, throttle
  LoRange,    \* what limits.*_min may be set to, per channel
  HiRange,    \* what limits.*_max may be set to, per channel
  Value,      \* the finite values a command message may carry
  NonFinite,  \* stands for NaN and the infinities
  Depth       \* the depth of each subscription, 10 in the code

Topic == Channel \cup {"enable_disable"}

ASSUME LimitsAssumption ==
  /\ "enable_disable" \notin Channel
  /\ \A c \in Channel : LoRange[c] \subseteq Int /\ HiRange[c] \subseteq Int
  /\ Value \subseteq Int /\ NonFinite \notin Int
  /\ \A t \in Topic : Depth[t] \in Nat \ {0}

VARIABLES
  lo, hi,   \* brake_min_, brake_max_, ...
  inbox,    \* messages waiting on each subscription
  bus,      \* the value each channel was last sent, << >> at first
  asked,    \* history: the command value behind it
  enabled,  \* the modules that actuate
  wanted,   \* history: the latest message published on enable_disable
  failed    \* history: whether the last call since that message failed

limitVars == << lo, hi >>
moduleVars == << bus, asked, enabled >>
requestVars == << wanted, failed >>
vars == << limitVars, inbox, moduleVars, requestVars >>

Payload(t) == IF t = "enable_disable" THEN BOOLEAN ELSE Value \cup {NonFinite}

(***************************************************************************)
(* Mutants: plausible bugs in the definitions below.                       *)
(***************************************************************************)
StdClampUpperOnly(v, l, h) == {IF v > h THEN h ELSE v}
StdClampLetsThrough(v, l, h) ==
  IF l <= h THEN {IF v < l THEN l ELSE IF v > h THEN h ELSE v} ELSE {v}
EnableWhateverAsked(e) == enabled' = Channel
DisableForgotten(e) == enabled' = IF e THEN Channel ELSE enabled

-----------------------------------------------------------------------------
(* The code. *)

\* A keep-last subscription of depth n: the oldest message makes room.
KeepLast(waiting, m, n) ==
  Append(IF Len(waiting) < n THEN waiting ELSE Tail(waiting), m)

\* std::clamp.  With l > h its behaviour is undefined: comparing with l first
\* gives l for a value below it, taking the minimum last gives h.
StdClamp(v, l, h) ==
  IF l <= h
  THEN {IF v < l THEN l ELSE IF v > h THEN h ELSE v}
  ELSE {h} \cup {w \in {l} : v < l}

Finite(v) == IF v = NonFinite THEN 0 ELSE v

\* Mutant of Clamp: the test for a finite value is dropped.
ClampLetsNaNThrough(v, l, h) == IF v = NonFinite THEN {v} ELSE StdClamp(v, l, h)

\* RosToOscc::clamp().
Clamp(v, l, h) == StdClamp(Finite(v), l, h)

\* The values a limit of each channel may have been given.
Limits(range) ==
  {l \in [Channel -> UNION {range[c] : c \in Channel}] :
     \A c \in Channel : l[c] \in range[c]}

NoMessages == [t \in Topic |-> << >>]

\* The constructor reads the limits; a minimum above its maximum is only
\* reported.
Init ==
  /\ lo \in Limits(LoRange) /\ hi \in Limits(HiRange)
  /\ inbox = NoMessages
  /\ bus = [c \in Channel |-> << >>] /\ asked = [c \in Channel |-> << >>]
  /\ enabled = {}
  /\ wanted = FALSE /\ failed = FALSE

\* Any node publishes on a command topic, or on enable_disable.
PublishCommand(c, v) ==
  /\ inbox' = [inbox EXCEPT ![c] = KeepLast(@, v, Depth[c])]
  /\ UNCHANGED << limitVars, moduleVars, requestVars >>

PublishEnableDisable(e) ==
  /\ inbox' = [inbox EXCEPT !["enable_disable"] = KeepLast(@, e, Depth["enable_disable"])]
  /\ wanted' = e /\ failed' = FALSE
  /\ UNCHANGED << limitVars, moduleVars >>

Take(t) ==
  /\ inbox[t] # << >>
  /\ inbox' = [inbox EXCEPT ![t] = Tail(@)]

\* brakeCommandCallback() and its two likes; the value goes out on the bus.
CommandCallback(c) ==
  /\ Take(c)
  /\ \E w \in Clamp(Head(inbox[c]), lo[c], hi[c]) : bus' = [bus EXCEPT ![c] = << w >>]
  /\ asked' = [asked EXCEPT ![c] = << Finite(Head(inbox[c])) >>]
  /\ UNCHANGED << limitVars, enabled, requestVars >>

\* The call fails: report() logs it, and the command is not sent again.
CommandFails(c) ==
  /\ Take(c)
  /\ UNCHANGED << limitVars, moduleVars, requestVars >>

\* oscc_enable() or oscc_disable() reaches all modules.
SwitchModules(e) == enabled' = IF e THEN Channel ELSE {}

EnableDisableCallback ==
  /\ Take("enable_disable")
  /\ SwitchModules(Head(inbox["enable_disable"]))
  /\ failed' = FALSE
  /\ UNCHANGED << limitVars, bus, asked, wanted >>

\* It fails, having reached some modules perhaps; it is not tried again.
EnableDisableFails ==
  /\ Take("enable_disable")
  /\ \E reached \in SUBSET Channel :
       enabled' = IF Head(inbox["enable_disable"]) THEN enabled \cup reached
                  ELSE enabled \ reached
  /\ failed' = TRUE
  /\ UNCHANGED << limitVars, bus, asked, wanted >>

\* A module disables itself.
ModuleDisables(c) ==
  /\ c \in enabled
  /\ enabled' = enabled \ {c}
  /\ UNCHANGED << limitVars, inbox, bus, asked, requestVars >>

Next ==
  \/ \E c \in Channel :
       \/ \E v \in Payload(c) : PublishCommand(c, v)
       \/ CommandCallback(c)
       \/ CommandFails(c)
       \/ ModuleDisables(c)
  \/ \E e \in BOOLEAN : PublishEnableDisable(e)
  \/ EnableDisableCallback
  \/ EnableDisableFails

Spec == Init /\ [][Next]_vars

(***************************************************************************)
(* The spinning executor comes round to a waiting enable_disable message.  *)
(* Nothing is assumed of the publishers, the API or the modules.           *)
(***************************************************************************)
FairSpec == Spec /\ WF_vars(EnableDisableCallback \/ EnableDisableFails)

-----------------------------------------------------------------------------
(* Properties. *)

\* Types of the variables.
TypeOK ==
  /\ \A c \in Channel : lo[c] \in LoRange[c] /\ hi[c] \in HiRange[c]
  /\ \A t \in Topic : inbox[t] \in Seq(Payload(t)) /\ Len(inbox[t]) <= Depth[t]
  /\ \A c \in Channel : bus[c] = << >> \/ bus[c][1] \in Int
  /\ \A c \in Channel : asked[c] = << >> \/ asked[c][1] \in Int
  /\ enabled \subseteq Channel
  /\ wanted \in BOOLEAN /\ failed \in BOOLEAN

Distance(v, w) == IF v < w THEN w - v ELSE v - w

\* With ordered limits a channel is only ever sent the allowed value nearest
\* to the command, whatever a publisher asks for; to 0, if it asks for NaN.
BusIsNearestAllowed ==
  \A c \in Channel : bus[c] # << >> /\ lo[c] <= hi[c] =>
    /\ bus[c][1] \in lo[c] .. hi[c]
    /\ \A w \in lo[c] .. hi[c] : Distance(bus[c][1], asked[c][1]) <= Distance(w, asked[c][1])

\* Limits in the wrong order, which the constructor only warns of, leave a
\* channel two values, the limits themselves: nothing beyond both is ever sent.
BusWithinLimits ==
  \A c \in Channel : bus[c] # << >> =>
    bus[c][1] \in IF lo[c] <= hi[c] THEN lo[c] .. hi[c] ELSE {lo[c], hi[c]}

\* Once the waiting enable_disable messages are used up, the latest of them
\* has been obeyed, however many were published, pushed out or failed meanwhile:
\* if it was a disable and its own call did not fail, no module actuates.
DisableSettles ==
  inbox["enable_disable"] = << >> /\ ~ failed /\ ~ wanted => enabled = {}

\* A published disable takes effect unless it is superseded or a call made
\* since it was published fails, whatever became of the calls before that.
DisableTakesEffect == ~ wanted ~> wanted \/ failed \/ enabled = {}

=============================================================================
