------------------------------ MODULE OsccToRos ------------------------------
(***************************************************************************)
(* OsccToRos (src/oscc_to_ros.cpp): OSCC's report handlers put stamped     *)
(* reports into one queue per kind of report, and drain(), a timer         *)
(* callback of the executor, publishes them, feeds the OBD frames to       *)
(* ObdFeedback and warns of dropped reports.  Handlers run between any two *)
(* steps of drain().                                                       *)
(*                                                                         *)
(* A push() or pop() is one step here, and a queue is a sequence:          *)
(* SignalQueue, which models the ring itself, implements SampleFifo.  What *)
(* one step must not hide is that the acquire load in push() or pop() may  *)
(* return an old store: a handler may find no room where there is some,    *)
(* and drain() no report where there is one.                               *)
(***************************************************************************)
EXTENDS ObdFeedback, FiniteSets

CONSTANTS
  Plain,           \* the queues drain() only copies, in the order it takes them
  Depth,           \* the slots N of each queue
  Frames,          \* [id, dlc] of the OBD frames that may arrive
  DropWarnWindow,  \* the 1 s within which the drop warning is not repeated
  MaxReports,      \* bound: reports in a behaviour
  MaxTime          \* bound: the clock

Order == Append(Plain, "obd")
Queue == {Order[i] : i \in 1 .. Len(Order)}

ASSUME DrainAssumption ==
  /\ Plain \in Seq(STRING) /\ \A i \in 1 .. Len(Plain) : Plain[i] # "obd"
  /\ \A q \in Queue : Depth[q] \in Nat \ {0, 1}
  /\ \A f \in Frames : f.dlc \in Dlc
  /\ DropWarnWindow \in Nat /\ MaxReports \in Nat /\ MaxTime \in Nat \ {0}

VARIABLES
  now,                  \* the clock, CLOCK_REALTIME and the node's alike
  arrived,              \* history: how many reports OSCC has handed over
  queue,                \* brake_queue_ ... obd_queue_
  freed,                \* per queue: how many pops its handler has learnt of
  seen,                 \* per queue: how many pushes drain() has learnt of
  dropped,              \* dropped_
  last_reported_drops,  \* last_reported_drops_
  at,                   \* where drain() is
  item,                 \* drain(): the OBD frame in hand, << >> or << frame >>
  drops,                \* drain(): the local of that name
  published,            \* history: messages published on each topic
  logged,               \* history: the highest count a drop warning has named
  lastDropLog           \* when the drop warning was last logged

handlerVars == << arrived, queue, freed, dropped >>
drainVars == << seen, last_reported_drops, at, item, drops, published, logged, lastDropLog >>
vars == << now, handlerVars, drainVars, feedbackVars >>

\* at is a place of Order while its queue is drained, then one of these.
Idle == 0
Staleness == Len(Order) + 1
LoadDrops == Len(Order) + 2
WarnDrops == Len(Order) + 3

Offered(q) == IF q = "obd" THEN Frames ELSE {[id |-> "none", dlc |-> 0]}
Stamp(f, t) == [id |-> f.id, dlc |-> f.dlc, stamp |-> t]
Reports(q) == {Stamp(f, t) : f \in Offered(q), t \in 1 .. MaxTime}

(***************************************************************************)
(* Mutants: plausible bugs in the definitions below.                       *)
(***************************************************************************)
RoomWholeArray(q, t) == Len(published[q]) + Len(queue[q]) - t < Depth[q]
CountsNothing == UNCHANGED dropped
HasNewsAlways(d) == TRUE
HasNewsOfTwo(d) == d > last_reported_drops + 1

-----------------------------------------------------------------------------
(* The code. *)

\* Queue q has taken Pushed(q) reports and given back Len(published[q]) of them.
Pushed(q) == Len(published[q]) + Len(queue[q])

\* Room for one more report, for a handler that knows of t pops.
Room(q, t) == Pushed(q) - t < Depth[q] - 1
CountDrop == dropped' = dropped + 1
HasNews(d) == d # last_reported_drops
LogOpen(t) == t >= lastDropLog + DropWarnWindow

Init ==
  /\ now = 1
  /\ arrived = 0
  /\ queue = [q \in Queue |-> << >>]
  /\ freed = [q \in Queue |-> 0] /\ seen = [q \in Queue |-> 0]
  /\ dropped = 0
  /\ last_reported_drops = 0
  /\ at = Idle /\ item = << >> /\ drops = 0
  /\ published = [q \in Queue |-> << >>]
  /\ logged = 0 /\ lastDropLog = - DropWarnWindow
  /\ FeedbackInit

\* The load of tail_ in push() tells the handler of t pops: any store from the
\* last one seen on.
HandlerLearns(q, t) ==
  /\ t \in freed[q] .. Len(published[q])
  /\ freed' = [freed EXCEPT ![q] = t]

\* A report handler: enqueue() stamps the report and pushes it.
HandlerAccepts(q, f) ==
  /\ arrived < MaxReports /\ arrived' = arrived + 1
  /\ \E t \in 0 .. Len(published[q]) : HandlerLearns(q, t) /\ Room(q, t)
  /\ queue' = [queue EXCEPT ![q] = Append(@, Stamp(f, now))]
  /\ UNCHANGED << now, dropped, drainVars, feedbackVars >>

HandlerDrops(q) ==
  /\ arrived < MaxReports /\ arrived' = arrived + 1
  /\ \E t \in 0 .. Len(published[q]) : HandlerLearns(q, t) /\ ~ Room(q, t)
  /\ CountDrop
  /\ UNCHANGED << now, queue, drainVars, feedbackVars >>

\* The drain timer fires.
DrainStart ==
  /\ at = Idle
  /\ at' = 1
  /\ UNCHANGED << now, handlerVars, seen, item, drops, last_reported_drops,
                  published, logged, lastDropLog, feedbackVars >>

\* The load of head_ in pop() tells drain() of h pushes: any store from the
\* last one seen on.
DrainLearns(q, h) ==
  /\ h \in seen[q] .. Pushed(q)
  /\ seen' = [seen EXCEPT ![q] = h]

\* One successful pop() of queue q, and the publish that follows it.
PopAndPublish(q) ==
  /\ \E h \in 0 .. Pushed(q) : DrainLearns(q, h) /\ h # Len(published[q])
  /\ queue' = [queue EXCEPT ![q] = Tail(@)]
  /\ published' = [published EXCEPT ![q] = Append(@, Head(queue[q]))]
  /\ UNCHANGED << now, arrived, freed, dropped, at, drops, last_reported_drops,
                  logged, lastDropLog, feedbackVars >>

DrainPlain ==
  /\ at \in 1 .. Len(Plain)
  /\ PopAndPublish(Order[at])
  /\ UNCHANGED item

DrainObd ==
  /\ at = Len(Order) /\ item = << >>
  /\ PopAndPublish("obd")
  /\ item' = << Head(queue["obd"]) >>

\* feedback_->process() of the frame just published.
DrainFeedback ==
  /\ item # << >>
  /\ Process(item[1])
  /\ item' = << >>
  /\ UNCHANGED << now, handlerVars, seen, at, drops, last_reported_drops,
                  published, logged, lastDropLog >>

\* pop() finds the queue empty, or has not yet seen what is in it, and drain()
\* turns to what comes next.
DrainNext ==
  /\ at \in 1 .. Len(Order) /\ item = << >>
  /\ DrainLearns(Order[at], Len(published[Order[at]]))
  /\ at' = at + 1
  /\ UNCHANGED << now, handlerVars, item, drops, last_reported_drops, published,
                  logged, lastDropLog, feedbackVars >>

DrainStaleness ==
  /\ at = Staleness
  /\ CheckStaleness(now)
  /\ at' = LoadDrops
  /\ UNCHANGED << now, handlerVars, seen, item, drops, last_reported_drops,
                  published, logged, lastDropLog >>

\* The load of dropped_, which may return any count from the last one loaded
\* on, and the comparison with last_reported_drops_.
DropsRead(d) ==
  /\ at = LoadDrops
  /\ d \in last_reported_drops .. dropped

DrainNoNews ==
  /\ \E d \in 0 .. dropped : DropsRead(d) /\ ~ HasNews(d)
  /\ at' = Idle
  /\ UNCHANGED << now, handlerVars, seen, item, drops, last_reported_drops,
                  published, logged, lastDropLog, feedbackVars >>

DrainNews(d) ==
  /\ DropsRead(d)
  /\ HasNews(d)
  /\ drops' = d
  /\ at' = WarnDrops
  /\ UNCHANGED << now, handlerVars, seen, item, last_reported_drops, published,
                  logged, lastDropLog, feedbackVars >>

\* RCLCPP_WARN_THROTTLE logs or is silent; last_reported_drops_ moves on in
\* either case.
DropWarning ==
  /\ at = WarnDrops
  /\ last_reported_drops' = drops
  /\ drops' = 0
  /\ at' = Idle
  /\ UNCHANGED << now, handlerVars, seen, item, published, feedbackVars >>

WarnLogged ==
  /\ DropWarning
  /\ LogOpen(now)
  /\ logged' = drops
  /\ lastDropLog' = now

WarnThrottled ==
  /\ DropWarning
  /\ ~ LogOpen(now)
  /\ UNCHANGED << logged, lastDropLog >>

Tick ==
  /\ now < MaxTime
  /\ now' = now + 1
  /\ UNCHANGED << handlerVars, drainVars, feedbackVars >>

Handler ==
  \E q \in Queue : HandlerDrops(q) \/ \E f \in Offered(q) : HandlerAccepts(q, f)

Drain ==
  \/ DrainStart \/ DrainPlain \/ DrainObd \/ DrainFeedback \/ DrainNext
  \/ DrainStaleness \/ DrainNoNews \/ (\E d \in 0 .. dropped : DrainNews(d))
  \/ WarnLogged \/ WarnThrottled

Next == Handler \/ Drain \/ Tick

Spec == Init /\ [][Next]_vars

(***************************************************************************)
(* The executor spins: the periodic timer fires again after each drain(),  *)
(* whose steps never block; time passes; and a count that has been added   *)
(* to dropped_ becomes visible to drain() in finite time.  Nothing is      *)
(* assumed of OSCC, but arrivals end after MaxReports: that drain() comes  *)
(* to the end of queues that are refilled without end is DrainPace's.      *)
(***************************************************************************)
FairSpec == Spec /\ WF_vars(Drain) /\ WF_vars(Tick) /\ SF_vars(DrainNews(dropped))

-----------------------------------------------------------------------------
(* Properties. *)

\* Types of the variables; a queue never holds more than its ring can, and
\* what is known of it never runs ahead of what has happened.
TypeOK ==
  /\ now \in 1 .. MaxTime
  /\ arrived \in Nat
  /\ \A q \in Queue : /\ queue[q] \in Seq(Reports(q)) /\ Len(queue[q]) < Depth[q]
                      /\ published[q] \in Seq(Reports(q))
                      /\ freed[q] \in 0 .. Len(published[q])
                      /\ seen[q] \in Len(published[q]) .. Pushed(q)
  /\ dropped \in Nat /\ last_reported_drops \in Nat /\ drops \in Nat /\ logged \in Nat
  /\ at \in Idle .. WarnDrops
  /\ item = << >> \/ item[1] \in Reports("obd")
  /\ lastDropLog \in Int
  /\ \A s \in Signal : /\ reports[s] \in Seq(Reports("obd"))
                       /\ last[s] \in 0 .. MaxTime /\ lastStaleLog[s] \in Int

\* The reports of queue q that were accepted, numbered in their order.
Accepted(q) == 1 .. Pushed(q)

\* Every report OSCC hands over is published, waiting, or counted as dropped,
\* at every instant of the handlers and drain() interleaved.
EveryReportAccounted ==
  arrived = dropped + Cardinality(UNION {{q} \X Accepted(q) : q \in Queue})

\* The sequence w is what v holds at the places in I, in the order of v.
Selects(w, v, I) ==
  \E place \in [1 .. Len(w) -> I] :
    /\ \A i \in 1 .. Len(w) : w[i] = v[place[i]]
    /\ \A i \in 1 .. Len(w) : \A j \in 1 .. i - 1 : place[j] < place[i]
    /\ \A k \in I : \E i \in 1 .. Len(w) : place[i] = k

\* Frame f carries the whole signal s, by the DBC convention.
Carries(s, f) ==
  /\ Config[s].enabled /\ f.id = Config[s].can_id
  /\ DbcFits(Config[s].layout, f.dlc)

\* The frames of can_frame that process() has seen.
Processed == 1 .. Len(published["obd"]) - Len(item)

\* The feedback topics carry exactly the frames of can_frame that hold the
\* whole signal, in that order and never before the raw frame itself.
FeedbackFollowsRaw ==
  \A s \in Signal :
    Selects(reports[s], published["obd"], {i \in Processed : Carries(s, published["obd"][i])})

\* A staleness warning is true: the signal has been seen, and every frame of
\* it published so far is older than feedback_timeout.  In particular a bus
\* without a gateway gives no warning (obd_feedback.hpp:54).
StaleWarningsTrue ==
  [][\A s \in Signal : lastStaleLog'[s] # lastStaleLog[s] =>
       /\ reports[s] # << >>
       /\ \A i \in 1 .. Len(reports[s]) : now - reports[s][i].stamp > FeedbackTimeout]_vars

\* A drop warning always names drops that no earlier warning has named, and
\* never more than there have been.
DropWarningIsNews ==
  [][lastDropLog' # lastDropLog => logged < logged' /\ logged' <= dropped]_vars

\* A signal that falls silent is eventually warned of, once the queues let
\* drain() come to checkStaleness(): here because arrivals end, and in general
\* because drain() keeps ahead of them (DrainPace).  The bound on t leaves the
\* clock room for the timeout and for an earlier warning's window.
SilenceNoticed ==
  \A s \in Signal : \A t \in 1 .. MaxTime - StaleWarnWindow :
    LET Latest == reports[s] # << >> /\ reports[s][Len(reports[s])].stamp = t
    IN  Latest ~> (~ Latest \/ lastStaleLog[s] > t)

\* A first drop is always logged, once the queues let drain() come to its end
\* (as for SilenceNoticed): neither the throttle nor a count of drops that is
\* loaded late swallows it.
FirstDropLogged == dropped > 0 ~> logged > 0

\* What README.md:66 says: an overflow of the queue "is counted and logged".
EveryDropLogged == \A k \in 1 .. MaxReports : dropped >= k ~> logged >= k

=============================================================================
