# A TLA+ model of roscco (ROS 2)

roscco connects ROS 2 to OSCC, the control modules that drive a car's brake,
steering and throttle over CAN. `roscco_node` publishes the modules' reports and
forwards commands; `roscco_teleop` drives it from a gamepad. This directory
holds TLA+ modules of that program, the TLC runs that check them on small
instances, and theorems about them that TLAPS proves for every instance.

## The system

| component | state | operations | meets the others by |
|---|---|---|---|
| **SignalQueue** (`include/roscco/signal_queue.hpp`) | slots, `head_`, `tail_` | `push()`, `pop()` | one per report kind, shared by a signal handler and the drain timer, lock-free |
| **OsccToRos** (`src/oscc_to_ros.cpp`) | five static queues, `dropped_`, `last_reported_drops_` | five report handlers, `drain()`; constructor and destructor subscribe to the OSCC API | handlers are called by OSCC in a SIGIO handler, `drain()` by a 5 ms timer of the executor |
| **ObdFeedback** (`src/obd_feedback.cpp`) | two signal specifications, `last_steering_`, `last_brake_` | `process()`, `checkStaleness()` | called by `drain()` |
| **SignalSpec** (same files) | layout of one signal | `fitsIn()`, `decodeRaw()` | called by `process()` and ObdFeedback's constructor |
| **RosToOscc** (`src/ros_to_oscc.cpp`) | the limits, four subscriptions | three command callbacks, `enableDisableCallback()` | takes the messages of any publisher, calls the OSCC API |
| **roscco_node** (`src/roscco_node.cpp`) | its stage, what OSCC has attached | open, construct, spin, disable, reset, close | owns OsccToRos and RosToOscc |
| **RosccoTeleop** (`example/roscco_teleop.cpp`) | armed, enabled, button memory, commands, steering average, time of the last joy message | `joyCallback()`, `publishCommands()` | topics from `joy_node` and to RosToOscc |

From the pad to the car, then: `joy_node` publishes `joy`; RosccoTeleop publishes
three command topics and `enable_disable`; RosToOscc calls the OSCC API; the
modules actuate, and give up 200 ms after the last command.

Parameter helpers, messages and launch files have no state of their own. The
OSCC API is a git submodule and not part of the repository, nor is the firmware
of the modules; the ROS 1 sources and their tests are no longer built
(README.md:88-94 of the repository).

What is hard here, and what makes each part right:

* **SignalQueue** - a handler interrupts the drain between any two memory
  accesses, on a machine where a load may return an old value. Right means: no
  data race on a slot, every accepted report delivered once, unchanged and in
  order, and a full queue never blocks the handler.
* **OsccToRos** - reports arrive, or are dropped, while `drain()` runs. Right
  means: every report is published, waiting or counted; `drain()` comes to its end
  although its queues are refilled; none is lost within the slack the header
  promises; a drop is told.
* **ObdFeedback** - a time-out, two topics out of one frame, and a log throttle
  that hides things. Right means: feedback is exactly the readable frames, a
  staleness warning is true, and silence does not go unnoticed.
* **SignalSpec** - bit positions at every boundary. Right means: what the DBC
  convention says, for every layout and length.
* **RosToOscc** - API calls that fail half-way, queues that push old messages
  out, four topics taken in any order. Right means: only allowed values reach
  the bus, and the latest disable wins.
* **RosccoTeleop** - a timer and a callback against a pad that may die and come
  back. Right means: no command for a silent pad, no drive before this pad's
  triggers are parked (which does not hold, see `teleop_replugged`), nothing left
  over from before a time-out.
* **roscco_node** - calls that fail with only a log line, a death at any step and
  a successor that finds the modules as they were left. Right means: an orderly
  exit leaves nothing enabled and no handler attached, and nothing is switched
  on before the reports are subscribed to or after SIGINT was noticed.
* **Pad to car** - four time limits one after the other, messages that are lost
  or overtake each other, either end dying. Right means: what the car follows is
  recent, a release stops it whatever is lost, and the modules do not give up
  as long as all goes well.

## The modules

| module | models | checked by |
|---|---|---|
| `SampleFifo` | what SignalQueue promises: a bounded FIFO | refined by `SignalQueue` |
| `SignalQueue` | `push()` and `pop()`, an action per memory access | `MCSignalQueue` |
| `SignalQueueProofs` | lemmas on indices modulo N; the ring's theorems | TLAPS |
| `SignalLayout` | `fitsIn()` and the DBC convention | through the two below |
| `SignalSpec` | `decodeRaw()` bit by bit behind `fitsIn()` | `MCSignalSpec` |
| `SignalSpecProofs` | the decoder's theorems | TLAPS |
| `ObdFeedback` | `process()`, `checkStaleness()` | composed into `OsccToRos` |
| `OsccToRos` | handlers and `drain()` | `MCOsccToRos` |
| `OsccToRosProofs` | the drain's theorems | TLAPS |
| `DrainPace` | `drain()` against queues that are refilled for ever | `MCDrainPace` |
| `DrainPaceProofs` | the pace's theorems | TLAPS |
| `RosToOscc` | the command callbacks | `MCRosToOscc`; composed into `RosccoNode` |
| `RosToOsccProofs` | the bridge's theorems | TLAPS |
| `RosccoNode` | `main()` of roscco_node, around RosToOscc's callbacks | `MCRosccoNode` |
| `RosccoNodeProofs` | the lifecycle's theorems | TLAPS |
| `DeadManSwitch` | what the teleop promises the car | refined by `RosccoTeleop`, composed into `DriveByWire` |
| `RosccoTeleop` | `joyCallback()`, `publishCommands()` | `MCRosccoTeleop` |
| `RosccoTeleopProofs` | the teleop's theorems | TLAPS |
| `DriveByWire` | teleop, topics, bridge and modules on one clock | `MCDriveByWire` |
| `DriveByWireProofs` | the chain's theorems | TLAPS |

### SignalQueue

`head` and `tail` are the *modification orders* of the two atomics: the
sequences of all values stored. A load returns any element from the last one the
loading thread has seen onwards, which is what C++ promises for one atomic
variable. Every store also carries the number of slot accesses its thread had
made (`carries`); an acquire load learns that number (`pSees`, `cSees`). That is
the happens-before relation, and `NoSlotRace` says that a slot is accessed only
under it. Replacing the release store of `head_` by a relaxed one violates it.

`push()` is `PushLoadHead`, `PushFull` or `PushRoom`, `PushWrite`,
`PushPublish`; `pop()` is `PopEmpty` or `PopFound`, `PopRead`, `PopRelease`. The
load of a thread's own index is folded into its first action, since no other
thread writes it. There is one producer, as the class documents.

### OsccToRos and ObdFeedback

A `push()` or a `pop()` is one action and a queue is a sequence: `SignalQueue`
implements `SampleFifo`, which justifies that. What the one action must not hide
is that the acquire load inside may return an old store. `freed` is how many
pops each queue's handler has learnt of, `seen` how many pushes `drain()` has: a
handler may find its queue full, and drop, when there is room (`HandlerLearns`),
and `drain()` may find a queue empty when it is not (`DrainLearns`). The relaxed
load of `dropped_` may likewise return any count from the last one it returned
(`DropsRead`).

`at` says which block of
`drain()` runs; handlers and the clock step between any two of its actions. The
four queues that `drain()` only copies to a topic (brake, steering, throttle,
fault) are given by the constant `Plain`. `item` is the OBD frame between its publication and `process()`. The
load of `dropped_`, and the warning with the assignment of
`last_reported_drops_`, are two actions. The throttle of a log macro is a window
after the last line logged.

A message's contents are a report's identity and stamp; OBD frames keep their
identifier and length, on which `process()` decides. One clock gives stamps and
`now()`, as without `use_sim_time`.

### DrainPace

Each `while (queue.pop(item))` of `drain()` ends only when its queue is found
empty, and the handlers go on filling it. With nothing said of time, `drain()`
could stay at the first queue for ever, so this module gives time a unit: reports
of a kind come at least `ReportPeriod` apart and a step of `drain()` takes at most
`Cost`, less than any period (20 ms, against a `pop()` and a `publish()`). The
code states 50 Hz per module; that faults and forwarded OBD frames keep a least
distance is an assumption. Nothing is assumed of how long the executor leaves
the timer waiting. A queue is how many reports wait in it. `age` is the time
since `drain()` last found the queue empty, and stops at `Slack`, the
`(Depth - 1) * ReportPeriod` after which an overflow is possible. Loads that lag
by nanoseconds are no time at this scale, and are left to the other modules.

### SignalSpec

The constructor enables a signal or, if it fits in no frame, disables it
(`ConstructorEnables`, `ConstructorDisables`); `process()` passes a disabled one
by (`OfferIgnored`).

A decoded value is described by where each of its 64 bits comes from: a payload
position, or `Zero`. The DBC convention is stated independently of the code, by
numbering the bits in the order of transmission; a Motorola signal is then an
interval of places.

### RosToOscc

Subscriptions are bounded sequences that lose their oldest message
(`KEEP_LAST`). An API call succeeds, or fails having reached some modules or
none; a module may disable itself. Values are integers around the limits.
`std::clamp` with its bounds inverted is undefined, and is a choice between what
the two usual implementations return.

### RosccoTeleop

The callback is split by its branches (`JoyArms`, `JoyWaits`, `JoyDisables`,
`JoyEnables`, `JoyDrives`), the timer into `WatchdogTrips` and
`PublishCommands`. A malformed joy message changes nothing and is no action. The
smoothing factor may be any of (0, 1], so the new average is any value between
the old one and the set point. The `max_*` factors are 1: they only scale.
`sent`, `parked` and `start_before` are history variables. `PlugIn` is the pad
being unplugged and plugged in again, which the node is not told of; `parked`
says whether this pad, since then, has reported both triggers at rest. It is
independent of `armed_`: the watchdog resets `armed_` only while control is
enabled, and this is what `teleop_replugged` shows to be a gap.

The log line asks to "pull" the triggers to arm, while the code waits for both
to read above 0.99, which is released; the model follows the code.

### DeadManSwitch

The teleop seen from the car: a command goes out only while the pad is held,
that is, was heard of within `joy_timeout`; when it is not, control is released;
after that the pad must be seen at rest before a press enables control again
(the switch, like the code, does not know one pad from the next).
`RosccoTeleop` implements it with `rested <- armed`: `JoyArms`, `JoyWaits` and
`JoyDrives` are `Hold`, the two edges are `Press`, `PublishCommands` is `Command`,
`WatchdogTrips` is `Release`.

### RosccoNode

`stage` is the place in `main()`; the constructor and the destructor of OsccToRos
subscribe to one kind of report after the other (`done` counts them), and each
call may be refused, which the code does not look at. `Callback` is any callback
of RosToOscc, instantiated from its module with the same variables. `Die` is
possible in every stage, `Restart` makes a new process with new limits while the
modules stay as they are. A parameter out of its range ends the process while it
constructs. The report handlers themselves are not repeated: whether one *can*
run is `attached`, and what it does is `OsccToRos`, whose queues are static and
so survive both destructors. `unclean` remembers that a process died while it
could have left a module enabled, or failed to disable it.

### DriveByWire

The composition takes the teleop by its abstract specification, which
`RosccoTeleop` implements, and adds to it the timer (`Period`), the
subscriptions of RosToOscc (`commands`, `requests`), and one module that stands
for the last one that still actuates. The three commands of one timer callback
are one message. A call to the API that fails half-way is as good as made or as
good as lost. Messages of the two inboxes are taken in any order. The teleop may
die at any moment, and its successor knows nothing of it. A bridge that dies takes
all that waits with it: a run of lost messages, while the module heeds nothing.

`fault` remembers that something was lost or that the teleop died; it is what
`NoNuisanceTimeout` and `SilenceStops` exclude, while the other two safety bounds
hold with any faults.
`NoNuisanceTimeout` needs `Period + Latency < ModuleTimeout`: at
`publish_rate_hz: 5.0`, which the parameter's range allows, the period alone is
the modules' 200 ms, and they may give up between two commands.

## The runs

| run | shows | expected |
|---|---|---|
| `signal_queue` | race freedom, FIFO order, the inductive invariant, refinement of `SampleFifo`, eventual delivery | pass |
| `signal_spec` | decoding is exact when the frame holds the signal; neither `fitsIn()` nor the constructor refuses what a frame can hold; what is wrongly accepted lacks at most 7 bits | pass |
| `motorola_fits` | `fitsIn()` accepts Motorola frames that are short by up to seven bits, against `obd_feedback.hpp:44` | violation |
| `oscc_to_ros` | accounting, feedback against raw frames, true warnings, silence noticed, the first drop logged | pass |
| `drain_pace` | `drain()` returns although its queues are refilled for ever; a report is dropped only after the slack of `oscc_to_ros.hpp:74` | pass |
| `drop_logging` | drops within a second after a warning are never named, against README.md:66 | violation |
| `ros_to_oscc` | only the nearest allowed value is sent, and nothing beyond both limits when they are inverted; the latest disable settles and takes effect unless a call since fails | pass |
| `teleop` | arming, the edges, the watchdog: neutral when unarmed, fresh commands, disabled after silence; refinement of `DeadManSwitch` | pass |
| `teleop_held_start` | a START held through arming enables without a press, against `roscco_teleop.cpp:100` | violation |
| `teleop_replugged` | a pad plugged in again while control is off enables at half throttle, its triggers never parked, against `roscco_teleop.cpp:122` | violation |
| `drive_by_wire` | the input the car follows is at most joy time-out + latency + module time-out old; a release stops it within the last two; without a fault a silent pad stops it one period and one latency after the joy time-out, and the modules never give up; the inductive invariant | pass |
| `roscco_node` | an orderly exit leaves nothing enabled, no handler outlives the publishers, modules are switched on only under watch, SIGINT stops the car | pass |

Two more disagreements were met that need no run. A full queue refuses the
arriving report and keeps the oldest, while the comment at `signal_queue.hpp:53`
speaks of dropping the "oldest-arriving sample" (`PushFull`). And with a minimum
above its maximum `std::clamp` may return the minimum, while the log line at
`ros_to_oscc.cpp:41` announces that every command "will be pinned to the maximum"
(`StdClamp`); `BusWithinLimits` is what holds in that case.

### Bounds, and why they are enough

* `signal_queue`: three slots, six pushes, two sample values. The ring wraps
  twice, is full and empty in every position, and two values tell a stale or
  repeated sample from the right one. The theorems remove all three bounds.
* `signal_spec`: none; all 64 x 64 x 2 x 2 configurations, all lengths 0 .. 8
  (466,080 states).
* `oscc_to_ros`: two plain queues and the OBD queue with room for one report
  each, three reports, clock 1 .. 4, windows and time-outs of 1 and 2. A queue
  with room for one is full after one report, three reports fill, drop and
  follow up, and four instants hold a time-out and a throttle window. Both
  signals use the same identifier, one Intel of two bytes and one Motorola of one
  byte, with frames that hold both, one or neither (164,555 states). That
  arrivals end after three reports is used by `SilenceNoticed` and
  `FirstDropLogged`: `drain()` must come to its warnings. `drain_pace` shows that
  it does so without such a bound.
* `drain_pace`: three queues of two or three reports with periods 3, 4 and 2, and
  steps of up to 1, so that together the reports come faster than `drain()` empties
  all queues; queues overflow and are refilled while the others are drained
  (190,461 states). Reports never end. The theorems remove the bounds for the
  slack.
* `ros_to_oscc`: one channel with possibly inverted limits and one without;
  values below, in and above them; one waiting command per channel and two
  waiting requests, so that requests are pushed out. Publishing is unbounded.
* `teleop`: time-out 1, clock 1 .. 5, triggers at rest or unread, the stick
  centred or at one end: room for two time-outs with arming between them. The pad
  may be plugged in again at any time (17,996 states).
* `drive_by_wire`: joy time-out 2, period 1, latency 1, module time-out 3, depth
  2, clock 1 .. 9. All three bounds (6, 4 and 4) are attained exactly: with any
  one less, TLC finds a behaviour that exceeds it. Button presses at one instant
  overflow the requests of depth 2. The theorems remove all of these.
* `roscco_node`: two modules, so that a call may reach one of them; two kinds of
  report, so that one may be refused; one waiting message per topic and one
  value, since `ros_to_oscc` varies them. Any number of deaths and restarts.

All models run without an end of their own (a queue that is full or empty, a
clock at its bound, still leaves steps), so deadlock is checked in every run.

### Fairness, and why the code justifies it

* SignalQueue: the timer calls `pop()` again and again, its steps cannot block,
  and an atomic store becomes visible in finite time. Nothing of the producer.
* OsccToRos: `drain()` runs on and its periodic timer fires again; time passes;
  and, as strong fairness of `DrainNews(dropped)`, a count added to `dropped_` is
  seen by one of the `drain()` calls that load it, as C++ asks of an atomic store
  in finite time: weak fairness would not do, since the load is made only once in
  each call. Nothing of OSCC, which may fall silent for ever.
* DrainPace: `drain()` runs on and its timer fires again. Nothing of OSCC but its
  pace.
* RosToOscc: the executor gets to a waiting `enable_disable` message. Nothing of
  the publishers, the API or the modules.
* RosccoTeleop: the wall timer fires, time passes. Nothing of `joy_node`.
* RosccoNode: the main thread runs on once SIGINT has come, since no call in it
  waits for another process and `spin()` looks for SIGINT between two callbacks;
  modules without a process give up after their 200 ms. Nobody need restart the
  node or stop publishing.
* DriveByWire has safety properties only, with limits instead of fairness: time
  does not pass while the timer, a message that has waited for `Latency`, or the
  modules' time-out is due. The firmware and the network are outside the code,
  so `ModuleTimeout` (200 ms, roscco_teleop.cpp:38) and `Latency` are
  assumptions.

## What is proved

For every value of the constants that satisfies the modules' assumptions:

* **SignalQueueProofs** - `TypeCorrect`, `RingCorrect`, `FifoCorrect`,
  `RaceFreedom`, `RingImplementsFifo`, for every number of slots, samples and
  pushes. `FifoIntegrity` and `NoSlotRace` are not inductive: they need that
  both orders go round the ring in step (`StoresInStep`), that what a thread
  knows of the other lags by less than a round (`ViewsSafe`), and that each
  waiting report lies in its slot (`SlotsHoldWaiting`); together these are
  `RingInvariant`, which the run checks as well. Lemmas on remainders lead to the one
  fact that makes the free slot work: two positions less than N apart and equal
  modulo N are the same. The refinement takes each step of the ring to a step of
  the FIFO or a stutter.
* **SignalSpecProofs** - `TypeCorrect`, `DecodedExactly`,
  `NoneRefused`, `ShortByBits`. The argument is a renumbering: in the order of
  transmission a step of the sawtooth is a step of one place, so the walk's
  invariant is that it has taken consecutive places, all inside the frame.
* **OsccToRosProofs**, for any kinds of report, depths, frames, layouts and windows:
  * `TypeCorrect`, and `AllAccounted`: each report handed over is published,
    waiting or counted. `EveryReportAccounted` states it as the cardinality of a
    set of (queue, number) pairs, which a step of a handler extends by one pair
    and a pop leaves as it is. Both need `ViewsOK`: what a handler knows of the
    pops, and `drain()` of the pushes, lags and never leads, so a handler that
    finds room has room, and a `pop()` that finds a report has one.
  * `FeedbackSelects`: each feedback topic is the frames of `can_frame` that
    `process()` lets pass, each once and in order, and misses no frame that holds
    the whole signal. The invariant carries the places of the topic's frames in
    `can_frame`, strictly rising up to the frame in hand.
  * `FeedbackFollows`: `FeedbackFollowsRaw`, where the frames are those that hold
    the signal by the DBC convention, under `WholeBytes`: every enabled signal is
    little-endian, as the default layouts are, or starts at the top bit of a byte.
    The hypothesis cannot be dropped: without it `fitsIn()` passes frames that
    are short by up to seven bits, as the run `motorola_fits` shows.
  * `WarningsAreNews` needs that no warning has named more than
    `last_reported_drops`, and that this and the local `drops` never exceed
    `dropped`. `FirstNewsIsLogged` is the safety half of `FirstDropLogged`:
    `last_reported_drops` does not move on before a warning has been logged.
  * `StaleWarningsAreTrue` needs that the remembered stamp is the latest one
    published for the signal, which holds because stamps never decrease along a
    queue and from it to its topic. `SilenceIsNotOverlooked` is the safety half
    of `SilenceNoticed`: each `checkStaleness()` leaves a warning no older than
    the throttle's window for every silent signal.
* **DrainPaceProofs** - `TypeCorrect` and `SlackAlways`, for any queues, depths,
  periods and cost. The invariant (`Backlog`) is that what waits in a queue came
  one by one after it was last found empty: `(waiting - 1) * ReportPeriod + since`
  is at most `age`. A pop only lowers the left side, so nothing is needed of how
  far `drain()` got in between.
* **RosToOsccProofs** - `TypeCorrect`, `NearestAllowed`, `AlwaysWithinLimits`,
  `DisableHasSettled`, for any channels, limits, values and depths.
  `BusIsNearestAllowed` is inductive with the types, by a lemma on `Clamp`.
  `AlwaysWithinLimits` says what is left of it when the limits are inverted: one
  of the two, never a value beyond both. `DisableSettles` needs that the newest
  message waiting on `enable_disable` is the one `wanted` tells of, which a
  keep-last queue of depth one or more preserves.
* **RosccoNodeProofs** - `OrderlyExit`, `Detached`, `UnderWatch`. The strengthening
  says of each stage what has been subscribed to, or let go of, by then: the
  places of `Order` before `done`. `TypeCorrect`, `NearestAcrossRestarts` and
  `DisableObeyed` reuse the bridge's inductive invariant: `RosToOsccProofs` is
  instantiated, a callback or a publication is shown to be one of its steps, and
  the steps of `main()` that are not - the final `oscc_disable()`, the
  destructor, a death, a new process with new limits - to preserve it.
  `DisableSettles` survives them only as long as no process died or failed to
  disable (`RequestsObeyed`): a new one does not switch off what it inherits.
* **RosccoTeleopProofs** - `TypeCorrect`, `UnarmedNeutral`,
  `FreshCommands`, `SafeSwitch`, for any time-out and any clock
  bound. The strengthening: enabled implies armed, and unarmed implies that
  everything has been reset. `SafeSwitch` is the safety part of
  `ImplementsSwitch`.
* **DriveByWireProofs** - `InTime`, `RecentlyFollowed`, `ReleaseStopsAlways`,
  `NeverTimesOut`, `WatchdogIsInTime`, `SilenceStopsCar`, for any limits and
  depths. `WireInvariant` follows a message on its way: fresh when published, on
  the way no longer than `Latency`, and, once control has been given up, not
  younger than that; what the modules heed inherits it. The two bounds are sums of its inequalities. `NeverTimesOut` adds
  (`AliveInvariant`) that the timer is never late, that in either inbox the
  latest message tells what the teleop last did, and that while the modules
  actuate without a fault, a word that restarts their time-out, or ends it, is
  waiting or about to be sent.
  `WatchdogIsInTime` follows from the last firing of the timer, which found the
  pad heard of within the time-out. For `SilenceStopsCar` a waiting disable must
  not be older than that firing allows (`DisablesPrompt`); the latest word's
  latency does the rest.

The assumptions are those each module names: `QueueAssumption` (two slots or
more), `SpecsAssumption` and `FeedbackAssumption` (layouts within the parameters'
ranges), `DrainAssumption`, `PaceAssumption`, `LimitsAssumption` (`BridgeAssumption` where
`RosccoNode` instantiates it), `OrderAssumption`, `SwitchAssumption`,
`TeleopAssumption`, `WireAssumption`; they say that limits and bounds are natural
numbers, that depths are positive, that frames have a length of 0 .. 8, and that
names differ. TLC evaluates each of them.

Every invariant and every safety action property of the passing runs is stated by
a theorem. Only model-checked is liveness, which is out of the prover's reach
(`EveryAcceptedDelivered`, `SilenceNoticed`, `FirstDropLogged`, `DrainReturns`,
`DisableTakesEffect`, `SilenceDisables`, `InterruptStops`, and the fairness in
`ImplementsSwitch`); for two of them the theorems above prove what safety there
is in them. No theorem says of the decoder or of a topic what a recursive
definition computes: `EveryReportAccounted` counts with a cardinality and
`FeedbackFollowsRaw` tells of places, instead of summing and filtering, because
the library's induction over data is closed to the prover.

## What is not modelled

* Messages and launch files: no state of their own. Of the parameter helpers, only
  that a value out of its range ends the process while it starts; a parameter
  set later is accepted and read by nobody.
* Scaling of decoded values, `in_range`, `pressed`, wording and other logging.
* Clocks that differ (simulated time, NTP steps) and stamps beyond 2038: each is
  one conversion without behaviour, or an environment README.md:73-75 of the
  repository already warns of.
* Two SIGIO handlers running at once: whether they can depends on the OSCC
  library's `sigaction`, which is not in the repository.
* Which of the three modules actuates in `DriveByWire`, and each of the three
  command topics by itself; `RosToOscc` has them.
* The ROS 1 leftovers (`pid_control`, `roscco_apollo`, the `.h` twins of the two
  bridges) and the ROS 1 tests: they are not built (README.md:88-94), so no
  process has their behaviour, and a model of them could not be held against
  anything that runs. The OSCC library and firmware are modelled only as far as
  the code can see of them.

## Plan

The order is that of the harm a mistake would do.

1. Done: `SignalQueue` with proofs, `SignalSpec` with proofs, `OsccToRos` with
   `ObdFeedback`, `RosToOscc`, `RosccoTeleop` with proofs.
2. Done: `RosccoNode`, the lifecycle with SIGINT, failing calls, death and
   restart, with proofs.
3. Done: `DeadManSwitch`, which `RosccoTeleop` implements, and `DriveByWire`, the
   chain from pad to modules with losses, with proofs.
4. Done: proofs for `OsccToRos` and `RosToOscc`, and of every remaining safety
   property of the runs; `RosToOscc`'s invariants carried into `RosccoNode`.
   `DrainPace`, the drain against reports that never end, with proofs.
5. Left: that `RosToOscc` with its modules implements `DriveByWire`'s inboxes and
   module, which needs a refinement mapping that knows which message was the
   last to be heeded; two nodes' clocks that drift apart; roscco_node dying and
   restarting inside `DriveByWire`, where today it is a run of lost messages.
