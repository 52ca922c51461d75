--------------------------- MODULE OsccToRosProofs ---------------------------
(***************************************************************************)
(* Proofs about OsccToRos for every set of queues of any size, any OBD     *)
(* frames, signals and layouts, and any number of reports.                 *)
(***************************************************************************)
EXTENDS OsccToRos, FiniteSetTheorems, TLAPS

-----------------------------------------------------------------------------
(* Sequences. *)

LEMMA EmptyHolds ==
  ASSUME NEW S
  PROVE  << >> \in Seq(S)
OBVIOUS

LEMMA AppendHolds ==
  ASSUME NEW S, NEW w \in Seq(S), NEW v \in S
  PROVE  /\ Append(w, v) \in Seq(S)
         /\ Len(Append(w, v)) = Len(w) + 1
         /\ \A i \in 1 .. Len(w) : Append(w, v)[i] = w[i]
         /\ Append(w, v)[Len(w) + 1] = v
OBVIOUS

LEMMA AppendAnything ==
  ASSUME NEW S, NEW w \in Seq(S), NEW v
  PROVE  /\ Len(Append(w, v)) = Len(w) + 1
         /\ \A i \in 1 .. Len(w) : Append(w, v)[i] = w[i]
         /\ Append(w, v)[Len(w) + 1] = v
OBVIOUS

LEMMA TailHolds ==
  ASSUME NEW S, NEW w \in Seq(S), w # << >>
  PROVE  /\ Len(w) \in Nat \ {0}
         /\ Head(w) = w[1] /\ Head(w) \in S
         /\ Tail(w) \in Seq(S) /\ Len(Tail(w)) = Len(w) - 1
         /\ \A i \in 1 .. Len(Tail(w)) : Tail(w)[i] = w[i + 1]
OBVIOUS

-----------------------------------------------------------------------------
(* The inductive invariant. *)

\* A handler never knows of more pops of q than there were, nor drain() of
\* fewer pushes than it has popped: old loads err on the safe side.
ViewOK(q) ==
  /\ freed[q] \in 0 .. Len(published[q])
  /\ seen[q] \in Len(published[q]) .. Pushed(q)

ViewsOK ==
  /\ freed = [q \in Queue |-> freed[q]] /\ seen = [q \in Queue |-> seen[q]]
  /\ \A q \in Queue : ViewOK(q)

\* Each queue is within its ring, and holds what OSCC may offer it.
QueuesOK ==
  /\ queue = [q \in Queue |-> queue[q]] /\ published = [q \in Queue |-> published[q]]
  /\ \A q \in Queue : /\ queue[q] \in Seq(Reports(q)) /\ Len(queue[q]) < Depth[q]
                      /\ published[q] \in Seq(Reports(q))

\* What has been logged, reported and counted, in this order.
DropsOK ==
  /\ now \in 1 .. MaxTime /\ arrived \in Nat /\ lastDropLog \in Int
  /\ dropped \in Nat /\ last_reported_drops \in Nat /\ drops \in Nat /\ logged \in Nat
  /\ at \in Idle .. WarnDrops
  /\ logged <= last_reported_drops /\ last_reported_drops <= dropped
  /\ at = WarnDrops => last_reported_drops < drops /\ drops <= dropped

\* last_steering_ and last_brake_ are the stamps of the latest frames.
LatestOK(s) ==
  /\ reports[s] \in Seq(Reports("obd"))
  /\ last[s] \in 0 .. MaxTime /\ lastStaleLog[s] \in Int
  /\ last[s] > 0 => reports[s] # << >>
  /\ \A i \in 1 .. Len(reports[s]) : reports[s][i].stamp <= last[s]

FeedbackOK ==
  /\ item = << >> \/ \E f \in Reports("obd") : item = << f >>
  /\ lastStaleLog = [s \in Signal |-> lastStaleLog[s]]
  /\ \A s \in Signal : LatestOK(s)

\* No frame in w is stamped before t, or before one that it follows.
NoneBefore(w, t) == \A i \in 1 .. Len(w) : t <= w[i].stamp
InOrder(w) == \A i \in 1 .. Len(w) : \A j \in 1 .. i : w[j].stamp <= w[i].stamp

\* The OBD frames pass through the queue and drain() in the order of their stamps.
StampsOK ==
  /\ InOrder(queue["obd"])
  /\ \A i \in 1 .. Len(queue["obd"]) : queue["obd"][i].stamp <= now
  /\ item # << >> => item[1].stamp <= now /\ NoneBefore(queue["obd"], item[1].stamp)
  /\ \A s \in Signal : /\ last[s] <= now /\ NoneBefore(queue["obd"], last[s])
                       /\ item # << >> => last[s] <= item[1].stamp

\* drain() loads a count of drops that it has not reported yet.
DrainSomeNews == \E d \in 0 .. dropped : DrainNews(d)

Inv == QueuesOK /\ ViewsOK /\ DropsOK /\ FeedbackOK /\ StampsOK

LEMMA ConstantsOK ==
  /\ MaxTime \in Nat \ {0} /\ Len(Order) \in Nat \ {0}
  /\ "obd" \in Queue
  /\ \A i \in 1 .. Len(Order) : Order[i] \in Queue
  /\ \A q \in Queue : Depth[q] \in Nat \ {0, 1}
<1>1. Plain \in Seq(STRING)
  BY DrainAssumption
<1>2. Len(Order) = Len(Plain) + 1 /\ Order[Len(Plain) + 1] = "obd"
  BY <1>1, AppendAnything DEF Order
<1>3. Len(Order) \in Nat \ {0} /\ Order[Len(Order)] = "obd" /\ Len(Order) \in 1 .. Len(Order)
  BY <1>1, <1>2
<1> QED
  BY <1>3, DrainAssumption DEF Queue

LEMMA StampInRange ==
  ASSUME NEW q, NEW f \in Reports(q)
  PROVE  f.stamp \in 1 .. MaxTime /\ f.stamp \in Nat
BY ConstantsOK DEF Reports, Stamp

LEMMA InitInv == Init => Inv
<1> SUFFICES ASSUME Init
             PROVE  Inv
  OBVIOUS
<1>1. \A q \in Queue : queue[q] = << >> /\ published[q] = << >> /\ Depth[q] \in Nat \ {0, 1}
  BY ConstantsOK DEF Init
<1>2. queue = [q \in Queue |-> queue[q]] /\ published = [q \in Queue |-> published[q]]
  BY DEF Init
<1>3. QueuesOK
  <2>1. ASSUME NEW q \in Queue
        PROVE  /\ queue[q] \in Seq(Reports(q)) /\ Len(queue[q]) < Depth[q]
               /\ published[q] \in Seq(Reports(q))
    <3>1. Len(queue[q]) = 0
      BY <1>1
    <3>2. Len(queue[q]) < Depth[q]
      BY <1>1, <3>1
    <3>3. queue[q] \in Seq(Reports(q)) /\ published[q] \in Seq(Reports(q))
      BY <1>1, EmptyHolds, Zenon
    <3> QED
      BY <3>2, <3>3
  <2> QED
    BY <1>2, <2>1 DEF QueuesOK
<1>4. ViewsOK
  <2>1. \A q \in Queue : freed[q] = 0 /\ seen[q] = 0 /\ Len(published[q]) = 0 /\ Len(queue[q]) = 0
    BY <1>1 DEF Init
  <2>2. freed = [q \in Queue |-> freed[q]] /\ seen = [q \in Queue |-> seen[q]]
    BY DEF Init
  <2>3. ASSUME NEW q \in Queue
        PROVE  ViewOK(q)
    <3>1. Pushed(q) = 0
      <4>1. Pushed(q) = Len(published[q]) + Len(queue[q])
        BY DEF Pushed
      <4>2. Pushed(q) = 0 + 0
        BY <2>1, <4>1, Zenon
      <4> QED
        BY <4>2
    <3>2. freed[q] = 0 /\ seen[q] = 0 /\ Len(published[q]) = 0
      BY <2>1
    <3> QED
      BY <3>1, <3>2 DEF ViewOK
  <2> QED
    BY <2>2, <2>3 DEF ViewsOK
<1>5. DropsOK
  <2>1. Idle \in Idle .. WarnDrops /\ Idle # WarnDrops
    BY ConstantsOK DEF Idle, WarnDrops
  <2>2. - DropWarnWindow \in Int /\ 1 \in 1 .. MaxTime
    BY DrainAssumption
  <2> QED
    BY <2>1, <2>2 DEF Init, DropsOK
<1>6. \A s \in Signal : reports[s] = << >> /\ last[s] = 0 /\ lastStaleLog[s] = - StaleWarnWindow
  BY DEF Init, FeedbackInit
<1>7. FeedbackOK
  <2>1. lastStaleLog = [s \in Signal |-> lastStaleLog[s]] /\ item = << >>
    BY DEF Init, FeedbackInit
  <2>2. - StaleWarnWindow \in Int /\ 0 \in 0 .. MaxTime
    BY FeedbackAssumption, ConstantsOK
  <2>3. ASSUME NEW s \in Signal
        PROVE  LatestOK(s)
    <3>1. reports[s] = << >> /\ last[s] = 0 /\ lastStaleLog[s] \in Int
      BY <1>6, <2>2
    <3>2. \A i \in 1 .. Len(reports[s]) : FALSE
      BY <3>1
    <3>3. ~ (last[s] > 0) /\ last[s] \in 0 .. MaxTime
      BY <2>2, <3>1
    <3>4. reports[s] \in Seq(Reports("obd"))
      BY <3>1
    <3> QED
      BY <3>1, <3>2, <3>3, <3>4 DEF LatestOK
  <2> QED
    BY <2>1, <2>3 DEF FeedbackOK
<1>8. StampsOK
  <2>1. queue["obd"] = << >> /\ item = << >> /\ now = 1
    BY <1>1, ConstantsOK DEF Init
  <2> QED
    BY <1>6, <2>1 DEF StampsOK, InOrder, NoneBefore
<1> QED
  BY <1>3, <1>4, <1>5, <1>7, <1>8 DEF Inv

-----------------------------------------------------------------------------
(* The handlers. *)

LEMMA PushedNat ==
  ASSUME Inv, NEW q \in Queue
  PROVE  /\ Pushed(q) \in Nat /\ Len(published[q]) \in Nat /\ Len(queue[q]) \in Nat
         /\ Len(queue[q]) = Pushed(q) - Len(published[q])
         /\ ViewOK(q) /\ freed[q] \in Nat /\ seen[q] \in Nat
<1> DEFINE a == Len(published[q])
           b == Len(queue[q])
<1>1. a \in Nat /\ b \in Nat /\ Pushed(q) = a + b
  BY DEF Inv, QueuesOK, Pushed
<1>2. ViewOK(q) /\ freed[q] \in 0 .. a /\ seen[q] \in a .. Pushed(q)
  BY DEF Inv, ViewsOK, ViewOK
<1> HIDE DEF a, b
<1>3. Pushed(q) \in Nat /\ b = Pushed(q) - a /\ freed[q] \in Nat /\ seen[q] \in Nat
  BY <1>1, <1>2
<1> QED
  BY <1>1, <1>2, <1>3 DEF a, b

\* Whatever number of pops the handler has learnt of, if it finds room there
\* is room.
LEMMA RoomIsRoom ==
  ASSUME Inv, NEW q \in Queue, NEW t \in 0 .. Len(published[q]), Room(q, t), Depth[q] \in Nat
  PROVE  Len(queue[q]) < Depth[q] - 1
<1> DEFINE a == Len(published[q])
           b == Len(queue[q])
<1>1. a \in Nat /\ b \in Nat /\ b = Pushed(q) - a /\ t \in 0 .. a /\ Pushed(q) \in Nat
  BY PushedNat
<1>2. Pushed(q) - t < Depth[q] - 1
  BY DEF Room
<1> HIDE DEF a, b
<1>3. b < Depth[q] - 1
  BY <1>1, <1>2
<1> QED
  BY <1>3 DEF b

\* What a handler learns keeps the views in order.
LEMMA LearnsViews ==
  ASSUME Inv, NEW q \in Queue, NEW t, HandlerLearns(q, t), UNCHANGED << published, seen >>,
         \A r \in Queue : Pushed(r)' \in {Pushed(r), Pushed(r) + 1}
  PROVE  ViewsOK'
<1>1. /\ freed = [r \in Queue |-> freed[r]] /\ seen = [r \in Queue |-> seen[r]]
      /\ t \in freed[q] .. Len(published[q]) /\ freed' = [freed EXCEPT ![q] = t]
  BY DEF HandlerLearns, Inv, ViewsOK
<1>2. freed' = [r \in Queue |-> IF r = q THEN t ELSE freed[r]]
  BY <1>1
<1>3. ASSUME NEW r \in Queue
      PROVE  ViewOK(r)'
  <2>1. freed'[r] \in freed[r] .. Len(published[r])
    BY <1>1, <1>2, PushedNat DEF ViewOK
  <2> DEFINE a == Len(published[r])
  <2>2. a \in Nat /\ freed[r] \in Nat /\ seen[r] \in a .. Pushed(r) /\ Pushed(r) \in Nat
    BY PushedNat DEF ViewOK
  <2>3. Pushed(r)' \in {Pushed(r), Pushed(r) + 1}
    OBVIOUS
  <2>4. freed'[r] \in freed[r] .. a
    BY <2>1
  <2> HIDE DEF a
  <2>5. freed'[r] \in 0 .. a /\ seen[r] \in a .. Pushed(r)'
    BY <2>2, <2>3, <2>4
  <2> QED
    BY <2>5 DEF ViewOK, a
<1>4. freed' = [r \in Queue |-> freed'[r]] /\ seen' = [r \in Queue |-> seen'[r]]
  BY <1>1, <1>2
<1> QED
  BY <1>3, <1>4 DEF ViewsOK

LEMMA AcceptsInv ==
  ASSUME Inv, NEW q \in Queue, NEW f \in Offered(q), HandlerAccepts(q, f)
  PROVE  Inv'
<1> DEFINE v == Stamp(f, now)
<1> DEFINE w == queue["obd"]
<1>1. /\ arrived' = arrived + 1
      /\ queue' = [queue EXCEPT ![q] = Append(@, v)]
      /\ UNCHANGED << now, dropped, drainVars, feedbackVars >>
  BY DEF HandlerAccepts
<1>2. PICK t \in 0 .. Len(published[q]) : HandlerLearns(q, t) /\ Room(q, t)
  BY DEF HandlerAccepts
<1>3. v \in Reports(q) /\ v.stamp = now
  BY DEF Inv, DropsOK, Reports, Stamp
<1> HIDE DEF v
<1>4. queue = [r \in Queue |-> queue[r]] /\ queue[q] \in Seq(Reports(q)) /\ Depth[q] \in Nat
  BY ConstantsOK DEF Inv, QueuesOK
<1>5. queue' = [r \in Queue |-> IF r = q THEN Append(queue[q], v) ELSE queue[r]]
  BY <1>1, <1>4
<1>6. /\ Append(queue[q], v) \in Seq(Reports(q))
      /\ Len(Append(queue[q], v)) = Len(queue[q]) + 1
      /\ \A i \in 1 .. Len(queue[q]) : Append(queue[q], v)[i] = queue[q][i]
      /\ Append(queue[q], v)[Len(queue[q]) + 1] = v
  BY <1>3, <1>4, AppendHolds
<1>7. queue'[q] = Append(queue[q], v) /\ \A r \in Queue : r # q => queue'[r] = queue[r]
  BY <1>5
<1>8. Len(queue[q]) < Depth[q] - 1
  BY <1>2, <1>4, RoomIsRoom
<1>9. ViewsOK'
  <2>1. published' = published /\ seen' = seen
    BY <1>1 DEF drainVars
  <2>2. Pushed(q)' = Pushed(q) + 1
    <3> DEFINE a == Len(published[q])
               b == Len(queue[q])
    <3>1. a \in Nat /\ b \in Nat /\ Pushed(q) = a + b
      BY PushedNat DEF Pushed
    <3>2. Len(published'[q]) = a /\ Len(queue'[q]) = b + 1
      BY <1>6, <1>7, <2>1
    <3>3. Pushed(q)' = Len(published'[q]) + Len(queue'[q])
      BY DEF Pushed
    <3> HIDE DEF a, b
    <3>4. Pushed(q)' = a + (b + 1)
      BY <3>2, <3>3, Zenon
    <3> QED
      BY <3>1, <3>4
  <2>3. \A r \in Queue : r # q => Pushed(r)' = Pushed(r)
    BY <1>7, <2>1 DEF Pushed
  <2> QED
    BY <1>2, <2>1, <2>2, <2>3, LearnsViews
<1>10. QueuesOK'
  <2>1. queue' = [r \in Queue |-> queue'[r]]
    BY <1>5
  <2>2. queue'[q] \in Seq(Reports(q)) /\ Len(queue'[q]) < Depth[q]
    BY <1>8, <1>4, <1>6, <1>7
  <2>3. published' = published
    BY <1>1 DEF drainVars
  <2> QED
    BY <1>7, <2>1, <2>2, <2>3 DEF Inv, QueuesOK
<1>11. DropsOK'
  BY <1>1 DEF drainVars, Inv, DropsOK
<1>12. FeedbackOK'
  BY <1>1 DEF drainVars, feedbackVars, Inv, FeedbackOK, LatestOK
<1>13. StampsOK'
  <2>1. now' = now /\ item' = item /\ last' = last
    BY <1>1 DEF drainVars, feedbackVars
  <2>2. CASE q # "obd"
    <3>1. queue'["obd"] = queue["obd"]
      BY <1>7, <2>2, ConstantsOK
    <3> QED
      BY <2>1, <3>1 DEF Inv, StampsOK, InOrder, NoneBefore
  <2>3. CASE q = "obd"
    <3> DEFINE x == queue'["obd"]
    <3>1. /\ Len(x) = Len(w) + 1 /\ Len(w) \in Nat
          /\ \A i \in 1 .. Len(w) : x[i] = w[i]
          /\ x[Len(w) + 1] = v
      BY <1>4, <1>6, <1>7, <2>3
    <3>2. /\ \A i \in 1 .. Len(w) : w[i].stamp <= now
          /\ InOrder(w)
      BY DEF Inv, StampsOK
    <3>3. now \in Nat /\ now <= now
      BY DEF Inv, DropsOK
    <3> HIDE DEF x, w
    <3>4. \A i \in 1 .. Len(x) : i \in 1 .. Len(w) \/ i = Len(w) + 1
      BY <3>1
    <3>5. \A i \in 1 .. Len(x) : x[i].stamp <= now
      BY <1>3, <3>1, <3>2, <3>3, <3>4
    <3>6. InOrder(x)
      <4> SUFFICES ASSUME NEW i \in 1 .. Len(x), NEW j \in 1 .. i
                   PROVE  x[j].stamp <= x[i].stamp
        BY DEF InOrder
      <4>1. CASE i = Len(w) + 1
        <5>1. j \in 1 .. Len(x)
          BY <3>1, <4>1
        <5> QED
          BY <1>3, <3>1, <3>5, <4>1, <5>1
      <4>2. CASE i \in 1 .. Len(w)
        <5>1. j \in 1 .. Len(w)
          BY <3>1, <4>2
        <5> QED
          BY <3>1, <3>2, <4>2, <5>1 DEF InOrder
      <4> QED
        BY <3>4, <4>1, <4>2
    <3>7. ASSUME NEW u, u <= now, NoneBefore(w, u)
          PROVE  NoneBefore(x, u)
      BY <1>3, <3>1, <3>4, <3>7 DEF NoneBefore
    <3>8. /\ item # << >> => item[1].stamp <= now /\ NoneBefore(w, item[1].stamp)
          /\ \A s \in Signal : /\ last[s] <= now /\ NoneBefore(w, last[s])
                               /\ item # << >> => last[s] <= item[1].stamp
      BY DEF w, Inv, StampsOK
    <3>9. x = queue'["obd"]
      BY DEF x
    <3> QED
      BY <2>1, <3>5, <3>6, <3>7, <3>8, <3>9 DEF StampsOK
  <2> QED
    BY <2>2, <2>3
<1> QED
  BY <1>9, <1>10, <1>11, <1>12, <1>13 DEF Inv

LEMMA ViewsStay ==
  ASSUME Inv, UNCHANGED << queue, published, freed, seen >>
  PROVE  ViewsOK'
BY DEF Inv, ViewsOK, ViewOK, Pushed

\* Steps that touch neither the queues nor the frames.
LEMMA RestStays ==
  ASSUME Inv, UNCHANGED << queue, published, item, reports, last, now >>,
         lastStaleLog' = [s \in Signal |-> lastStaleLog'[s]],
         \A s \in Signal : lastStaleLog'[s] \in Int
  PROVE  QueuesOK' /\ FeedbackOK' /\ StampsOK'
<1>1. QueuesOK'
  BY DEF Inv, QueuesOK
<1>2. FeedbackOK'
  BY DEF Inv, FeedbackOK, LatestOK
<1>3. StampsOK'
  BY DEF Inv, StampsOK, InOrder, NoneBefore
<1> QED
  BY <1>1, <1>2, <1>3

LEMMA LogsInt ==
  Inv => /\ lastStaleLog = [s \in Signal |-> lastStaleLog[s]]
         /\ \A s \in Signal : lastStaleLog[s] \in Int
BY DEF Inv, FeedbackOK, LatestOK

LEMMA DropsInv ==
  ASSUME Inv, NEW q \in Queue, HandlerDrops(q)
  PROVE  Inv'
<1>1. /\ arrived' = arrived + 1 /\ dropped' = dropped + 1
      /\ UNCHANGED << now, queue, drainVars, feedbackVars >>
  BY DEF HandlerDrops, CountDrop
<1>2. DropsOK'
  BY <1>1 DEF drainVars, Inv, DropsOK
<1>3. ViewsOK'
  <2>1. PICK t \in 0 .. Len(published[q]) : HandlerLearns(q, t)
    BY DEF HandlerDrops
  <2>2. \A r \in Queue : Pushed(r)' = Pushed(r)
    BY <1>1 DEF drainVars, Pushed
  <2> QED
    BY <1>1, <2>1, <2>2, LearnsViews DEF drainVars
<1> QED
  BY <1>1, <1>2, <1>3, LogsInt, RestStays DEF drainVars, feedbackVars, Inv

-----------------------------------------------------------------------------
(* drain(). *)

\* However old the store of head_ that pop() has read, what it finds is there.
LEMMA PopFinds ==
  ASSUME Inv, NEW q \in Queue, PopAndPublish(q)
  PROVE  queue[q] # << >>
<1>1. PICK h \in 0 .. Pushed(q) : DrainLearns(q, h) /\ h # Len(published[q])
  BY DEF PopAndPublish
<1> DEFINE a == Len(published[q])
           b == Len(queue[q])
<1>2. /\ a \in Nat /\ b \in Nat /\ b = Pushed(q) - a /\ Pushed(q) \in Nat
      /\ seen[q] \in a .. Pushed(q) /\ h \in seen[q] .. Pushed(q) /\ h # a
  BY <1>1, PushedNat DEF DrainLearns, ViewOK
<1> HIDE DEF a, b
<1>3. b > 0
  BY <1>2
<1> QED
  BY <1>3 DEF b

\* One pop() and the publish that follows.
LEMMA PopHolds ==
  ASSUME Inv, NEW q \in Queue, PopAndPublish(q)
  PROVE  /\ Head(queue[q]) \in Reports(q)
         /\ QueuesOK' /\ ViewsOK' /\ DropsOK'
         /\ queue[q] # << >> /\ queue'[q] = Tail(queue[q])
         /\ \A r \in Queue : r # q => queue'[r] = queue[r]
<1>1. /\ queue[q] # << >>
      /\ queue' = [queue EXCEPT ![q] = Tail(@)]
      /\ published' = [published EXCEPT ![q] = Append(@, Head(queue[q]))]
      /\ UNCHANGED << now, arrived, dropped, at, drops, last_reported_drops, logged, lastDropLog >>
  BY PopFinds DEF PopAndPublish
<1>2. /\ queue = [r \in Queue |-> queue[r]] /\ published = [r \in Queue |-> published[r]]
      /\ queue[q] \in Seq(Reports(q)) /\ Len(queue[q]) < Depth[q] /\ Depth[q] \in Nat
      /\ published[q] \in Seq(Reports(q))
  BY ConstantsOK DEF Inv, QueuesOK
<1>3. /\ queue' = [r \in Queue |-> IF r = q THEN Tail(queue[q]) ELSE queue[r]]
      /\ published' = [r \in Queue |-> IF r = q THEN Append(published[q], Head(queue[q]))
                                       ELSE published[r]]
  BY <1>1, <1>2
<1>4. /\ Len(queue[q]) \in Nat \ {0} /\ Head(queue[q]) \in Reports(q)
      /\ Tail(queue[q]) \in Seq(Reports(q)) /\ Len(Tail(queue[q])) = Len(queue[q]) - 1
  BY <1>1, <1>2, TailHolds
<1>5. Append(published[q], Head(queue[q])) \in Seq(Reports(q))
  BY <1>2, <1>4, AppendHolds
<1>6. /\ queue'[q] = Tail(queue[q]) /\ published'[q] = Append(published[q], Head(queue[q]))
      /\ \A r \in Queue : r # q => queue'[r] = queue[r] /\ published'[r] = published[r]
      /\ queue' = [r \in Queue |-> queue'[r]] /\ published' = [r \in Queue |-> published'[r]]
  BY <1>3
<1>7. queue'[q] \in Seq(Reports(q)) /\ Len(queue'[q]) < Depth[q] /\ published'[q] \in Seq(Reports(q))
  BY <1>2, <1>4, <1>5, <1>6
<1>8. QueuesOK'
  BY <1>6, <1>7 DEF Inv, QueuesOK
<1>9. DropsOK'
  BY <1>1 DEF Inv, DropsOK
<1>10. ViewsOK'
  <2>1. PICK h \in 0 .. Pushed(q) : DrainLearns(q, h) /\ h # Len(published[q])
    BY DEF PopAndPublish
  <2>2. freed' = freed /\ freed = [r \in Queue |-> freed[r]] /\ seen = [r \in Queue |-> seen[r]]
    BY DEF PopAndPublish, Inv, ViewsOK
  <2>3. h \in seen[q] .. Pushed(q) /\ seen' = [r \in Queue |-> IF r = q THEN h ELSE seen[r]]
    BY <2>1, <2>2 DEF DrainLearns
  <2>4. Len(published'[q]) = Len(published[q]) + 1
    BY <1>2, <1>4, <1>6, AppendAnything
  <2>5. Pushed(q)' = Pushed(q)
    <3> DEFINE a == Len(published[q])
               b == Len(queue[q])
    <3>1. a \in Nat /\ b \in Nat /\ Pushed(q) = a + b
      BY PushedNat DEF Pushed
    <3>2. Len(published'[q]) = a + 1 /\ Len(queue'[q]) = b - 1
      BY <1>4, <1>6, <2>4
    <3>3. Pushed(q)' = Len(published'[q]) + Len(queue'[q])
      BY DEF Pushed
    <3> HIDE DEF a, b
    <3>4. Pushed(q)' = (a + 1) + (b - 1)
      BY <3>2, <3>3, Zenon
    <3> QED
      BY <3>1, <3>4
  <2>6. ViewOK(q)'
    <3> DEFINE a == Len(published[q])
    <3>1. a \in Nat /\ freed[q] \in 0 .. a /\ seen[q] \in a .. Pushed(q) /\ Pushed(q) \in Nat
      BY PushedNat DEF ViewOK
    <3>2. Len(published'[q]) = a + 1 /\ h # a /\ h \in seen[q] .. Pushed(q)
      BY <2>1, <2>3, <2>4
    <3> HIDE DEF a
    <3>3. freed[q] \in 0 .. a + 1 /\ h \in a + 1 .. Pushed(q)
      BY <3>1, <3>2
    <3> QED
      BY <2>2, <2>3, <2>5, <3>2, <3>3 DEF ViewOK
  <2>7. ASSUME NEW r \in Queue, r # q
        PROVE  ViewOK(r)'
    BY <1>6, <2>2, <2>3, <2>7, PushedNat DEF ViewOK, Pushed
  <2>8. freed' = [r \in Queue |-> freed'[r]] /\ seen' = [r \in Queue |-> seen'[r]]
    BY <2>2, <2>3
  <2> QED
    BY <2>6, <2>7, <2>8 DEF ViewsOK
<1> QED
  BY <1>1, <1>4, <1>6, <1>8, <1>9, <1>10

LEMMA DrainPlainInv ==
  ASSUME Inv, DrainPlain
  PROVE  Inv'
<1>1. PICK q \in Queue : PopAndPublish(q) /\ q # "obd"
  <2>1. at \in 1 .. Len(Plain) /\ PopAndPublish(Order[at])
    BY DEF DrainPlain
  <2>2. Plain \in Seq(STRING) /\ \A i \in 1 .. Len(Plain) : Plain[i] # "obd"
    BY DrainAssumption
  <2>3. Len(Order) = Len(Plain) + 1 /\ Order[at] = Plain[at]
    BY <2>1, <2>2, AppendAnything DEF Order
  <2>4. at \in 1 .. Len(Order)
    BY <2>1, <2>2, <2>3
  <2> QED
    BY <2>1, <2>2, <2>3, <2>4, ConstantsOK
<1>2. UNCHANGED << now, item, reports, last, lastStaleLog >>
  BY <1>1 DEF DrainPlain, PopAndPublish, feedbackVars
<1>3. QueuesOK' /\ ViewsOK' /\ DropsOK' /\ queue'["obd"] = queue["obd"]
  BY <1>1, PopHolds, ConstantsOK
<1>4. FeedbackOK'
  BY <1>2 DEF Inv, FeedbackOK, LatestOK
<1>5. StampsOK'
  BY <1>2, <1>3 DEF Inv, StampsOK, InOrder, NoneBefore
<1> QED
  BY <1>3, <1>4, <1>5 DEF Inv

LEMMA DrainObdInv ==
  ASSUME Inv, DrainObd
  PROVE  Inv'
<1> DEFINE w == queue["obd"]
<1> DEFINE x == queue'["obd"]
<1>1. /\ PopAndPublish("obd") /\ item' = << Head(w) >> /\ w # << >>
      /\ UNCHANGED << now, reports, last, lastStaleLog >>
  BY PopFinds, ConstantsOK DEF DrainObd, PopAndPublish, feedbackVars
<1>2. Head(w) \in Reports("obd") /\ QueuesOK' /\ ViewsOK' /\ DropsOK' /\ x = Tail(w)
  BY <1>1, PopHolds, ConstantsOK
<1>3. FeedbackOK'
  BY <1>1, <1>2 DEF Inv, FeedbackOK, LatestOK
<1>4. StampsOK'
  <2>1. w \in Seq(Reports("obd"))
    BY ConstantsOK DEF Inv, QueuesOK
  <2>2. /\ Len(w) \in Nat \ {0} /\ Head(w) = w[1]
        /\ Len(x) = Len(w) - 1 /\ \A i \in 1 .. Len(x) : x[i] = w[i + 1]
    BY <1>1, <1>2, <2>1, TailHolds
  <2>3. /\ InOrder(w) /\ \A i \in 1 .. Len(w) : w[i].stamp <= now
        /\ \A s \in Signal : last[s] <= now /\ NoneBefore(w, last[s])
    BY DEF Inv, StampsOK
  <2>4. item'[1] = w[1] /\ last' = last /\ now' = now
    BY <1>1, <2>2
  <2>5. queue'["obd"] = x
    OBVIOUS
  <2> HIDE DEF w, x
  <2>6. /\ 1 \in 1 .. Len(w)
        /\ \A i \in 1 .. Len(x) : i + 1 \in 1 .. Len(w) /\ 1 \in 1 .. i + 1
    BY <2>2
  <2>7. InOrder(x)
    <3> SUFFICES ASSUME NEW i \in 1 .. Len(x), NEW j \in 1 .. i
                 PROVE  x[j].stamp <= x[i].stamp
      BY DEF InOrder
    <3>1. j \in 1 .. Len(x) /\ j + 1 \in 1 .. i + 1
      BY <2>2
    <3> QED
      BY <2>2, <2>3, <2>6, <3>1 DEF InOrder
  <2>8. \A i \in 1 .. Len(x) : x[i].stamp <= now
    BY <2>2, <2>3, <2>6
  <2>9. NoneBefore(x, w[1].stamp)
    BY <2>2, <2>3, <2>6 DEF InOrder, NoneBefore
  <2>10. \A s \in Signal : NoneBefore(x, last[s]) /\ last[s] <= w[1].stamp
    BY <2>2, <2>3, <2>6 DEF NoneBefore
  <2>11. w[1].stamp <= now
    BY <2>3, <2>6
  <2> QED
    BY <2>3, <2>4, <2>5, <2>7, <2>8, <2>9, <2>10, <2>11 DEF StampsOK
<1> QED
  BY <1>2, <1>3, <1>4 DEF Inv

\* process() of the frame in hand.
LEMMA DrainFeedbackInv ==
  ASSUME Inv, DrainFeedback
  PROVE  Inv'
<1>1. PICK f \in Reports("obd") : item = << f >>
  BY DEF DrainFeedback, Inv, FeedbackOK
<1>2. item # << >> /\ item[1] = f
  BY <1>1 DEF DrainFeedback
<1>3. /\ item' = << >>
      /\ reports' = [s \in Signal |-> IF Decodes(s, f) THEN Append(reports[s], f) ELSE reports[s]]
      /\ last' = [s \in Signal |-> IF Decodes(s, f) THEN f.stamp ELSE last[s]]
      /\ UNCHANGED << now, queue, published, freed, seen, arrived, dropped, at, drops,
                      last_reported_drops, logged, lastDropLog, lastStaleLog >>
  BY <1>2 DEF DrainFeedback, Process, handlerVars
<1>4. f.stamp \in 1 .. MaxTime /\ f.stamp \in Nat
  BY StampInRange
<1>5. \A s \in Signal : last[s] <= f.stamp
  BY <1>2 DEF Inv, StampsOK
<1>6. QueuesOK'
  BY <1>3 DEF Inv, QueuesOK
<1>7. DropsOK'
  BY <1>3 DEF Inv, DropsOK
<1>8. ASSUME NEW s \in Signal
      PROVE  LatestOK(s)'
  <2>1. LatestOK(s)
    BY DEF Inv, FeedbackOK
  <2>2. CASE ~ Decodes(s, f)
    BY <1>3, <2>1, <2>2 DEF LatestOK
  <2>3. CASE Decodes(s, f)
    <3>1. reports'[s] = Append(reports[s], f) /\ last'[s] = f.stamp /\ lastStaleLog' = lastStaleLog
      BY <1>3, <2>3
    <3>2. /\ reports[s] \in Seq(Reports("obd")) /\ last[s] \in Nat
          /\ \A i \in 1 .. Len(reports[s]) : reports[s][i].stamp <= last[s]
      BY <2>1, ConstantsOK DEF LatestOK
    <3>3. /\ Append(reports[s], f) \in Seq(Reports("obd"))
          /\ Len(Append(reports[s], f)) = Len(reports[s]) + 1 /\ Len(reports[s]) \in Nat
          /\ \A i \in 1 .. Len(reports[s]) : Append(reports[s], f)[i] = reports[s][i]
          /\ Append(reports[s], f)[Len(reports[s]) + 1] = f
      BY <3>2, AppendHolds
    <3> DEFINE r == Append(reports[s], f)
    <3> HIDE DEF r
    <3>4. ASSUME NEW i \in 1 .. Len(r)
          PROVE  r[i].stamp <= f.stamp
      <4>1. CASE i \in 1 .. Len(reports[s])
        <5>1. r[i].stamp = reports[s][i].stamp /\ reports[s][i] \in Reports("obd")
          BY <3>2, <3>3, <4>1 DEF r
        <5>2. reports[s][i].stamp \in Nat
          BY <5>1, StampInRange
        <5> QED
          BY <1>4, <1>5, <3>2, <4>1, <5>1, <5>2
      <4>2. CASE i = Len(reports[s]) + 1
        BY <1>4, <3>3, <4>2 DEF r
      <4> QED
        BY <3>3, <4>1, <4>2 DEF r
    <3>5. r # << >>
      BY <3>3 DEF r
    <3>6. f.stamp \in 0 .. MaxTime /\ lastStaleLog'[s] \in Int
      BY <1>4, <2>1, <3>1 DEF LatestOK
    <3> QED
      BY <3>1, <3>3, <3>4, <3>5, <3>6 DEF LatestOK, r
  <2> QED
    BY <2>2, <2>3
<1>9. FeedbackOK'
  BY <1>3, <1>8 DEF Inv, FeedbackOK
<1>10. StampsOK'
  <2>1. /\ f.stamp <= now /\ NoneBefore(queue["obd"], f.stamp)
    BY <1>2 DEF Inv, StampsOK
  <2>2. \A s \in Signal : last'[s] <= now /\ NoneBefore(queue["obd"], last'[s])
    BY <1>3, <2>1 DEF Inv, StampsOK
  <2> QED
    BY <1>3, <2>2 DEF Inv, StampsOK, InOrder, NoneBefore
<1> QED
  BY <1>3, <1>6, <1>7, <1>9, <1>10, ViewsStay DEF Inv

\* Finding a queue empty, drain() knows of the pushes it has popped, no more.
LEMMA NextViews ==
  ASSUME Inv, DrainNext, UNCHANGED << queue, published, freed >>
  PROVE  ViewsOK'
<1> DEFINE q == Order[at]
<1>1. at \in 1 .. Len(Order) /\ DrainLearns(q, Len(published[q]))
  BY DEF DrainNext
<1>2. q \in Queue
  BY <1>1, ConstantsOK
<1> HIDE DEF q
<1>3. seen = [r \in Queue |-> seen[r]] /\ freed = [r \in Queue |-> freed[r]]
  BY DEF Inv, ViewsOK
<1>4. /\ Len(published[q]) \in seen[q] .. Pushed(q)
      /\ seen' = [r \in Queue |-> IF r = q THEN Len(published[q]) ELSE seen[r]]
  BY <1>1, <1>2, <1>3 DEF DrainLearns
<1>5. ASSUME NEW r \in Queue
      PROVE  ViewOK(r)'
  <2>1. freed'[r] \in 0 .. Len(published'[r]) /\ Pushed(r)' = Pushed(r)
    BY PushedNat DEF ViewOK, Pushed
  <2>2. seen'[r] \in Len(published[r]) .. Pushed(r)
    BY <1>4, PushedNat DEF ViewOK
  <2> QED
    BY <2>1, <2>2 DEF ViewOK
<1>6. freed' = [r \in Queue |-> freed'[r]] /\ seen' = [r \in Queue |-> seen'[r]]
  BY <1>3, <1>4
<1> QED
  BY <1>5, <1>6 DEF ViewsOK

\* The steps of drain() from one place to the next.
LEMMA DrainMovesInv ==
  ASSUME Inv, DrainStart \/ DrainNext \/ DrainNoNews \/ DrainSomeNews \/ WarnLogged \/ WarnThrottled
  PROVE  Inv'
<1> USE DEF DrainSomeNews
<1>1. UNCHANGED << now, arrived, queue, freed, dropped, item, published, reports, last,
                   lastStaleLog >>
  BY DEF DrainStart, DrainNext, DrainNoNews, DrainNews, WarnLogged, WarnThrottled, DropWarning,
     handlerVars, feedbackVars
<1>2. Len(Order) \in Nat
  BY ConstantsOK
<1>3. DropsOK'
  <2> USE DEF Idle, Staleness, LoadDrops, WarnDrops
  <2>1. CASE DrainStart
    BY <1>1, <1>2, <2>1 DEF DrainStart, Inv, DropsOK
  <2>2. CASE DrainNext
    BY <1>1, <1>2, <2>2 DEF DrainNext, Inv, DropsOK
  <2>3. CASE DrainNoNews
    BY <1>1, <1>2, <2>3 DEF DrainNoNews, DropsRead, Inv, DropsOK
  <2>4. CASE DrainSomeNews
    BY <1>1, <1>2, <2>4 DEF DrainNews, DropsRead, HasNews, Inv, DropsOK
  <2>5. CASE WarnLogged \/ WarnThrottled
    BY <1>1, <1>2, <2>5 DEF WarnLogged, WarnThrottled, DropWarning, Inv, DropsOK
  <2> QED
    BY <2>1, <2>2, <2>3, <2>4, <2>5
<1>4. ViewsOK'
  <2>1. CASE DrainNext
    BY <1>1, <2>1, NextViews
  <2>2. CASE DrainStart \/ DrainNoNews \/ DrainSomeNews \/ WarnLogged \/ WarnThrottled
    BY <1>1, <2>2, ViewsStay DEF DrainStart, DrainNoNews, DrainNews, WarnLogged, WarnThrottled,
       DropWarning
  <2> QED
    BY <2>1, <2>2
<1> QED
  BY <1>1, <1>3, <1>4, LogsInt, RestStays DEF Inv

LEMMA DrainStalenessInv ==
  ASSUME Inv, DrainStaleness
  PROVE  Inv'
<1>1. /\ at' = LoadDrops /\ CheckStaleness(now)
      /\ UNCHANGED << now, arrived, queue, freed, seen, dropped, item, drops,
                      last_reported_drops, published, logged, lastDropLog, reports, last >>
  BY DEF DrainStaleness, CheckStaleness, handlerVars
<1>2. DropsOK'
  BY <1>1, ConstantsOK DEF Inv, DropsOK, Idle, LoadDrops, WarnDrops
<1>3. \A s \in Signal : lastStaleLog'[s] \in {now, lastStaleLog[s]}
  BY <1>1 DEF CheckStaleness
<1>4. lastStaleLog' = [s \in Signal |-> lastStaleLog'[s]]
  BY <1>1 DEF CheckStaleness
<1>5. now \in Int
  BY DEF Inv, DropsOK
<1> QED
  BY <1>1, <1>2, <1>3, <1>4, <1>5, LogsInt, RestStays, ViewsStay DEF Inv

LEMMA TickInv ==
  ASSUME Inv, Tick
  PROVE  Inv'
<1>1. /\ now < MaxTime /\ now' = now + 1
      /\ UNCHANGED << arrived, queue, freed, seen, dropped, last_reported_drops, at, item,
                      drops, published, logged, lastDropLog, reports, last, lastStaleLog >>
  BY DEF Tick, handlerVars, drainVars, feedbackVars
<1>2. now \in Nat
  BY DEF Inv, DropsOK
<1>3. DropsOK'
  BY <1>1, ConstantsOK DEF Inv, DropsOK
<1>4. QueuesOK'
  BY <1>1 DEF Inv, QueuesOK
<1>5. FeedbackOK'
  BY <1>1 DEF Inv, FeedbackOK, LatestOK
<1>6. ASSUME NEW t \in Nat, t <= now
      PROVE  t <= now'
  BY <1>1, <1>2, <1>6
<1>7. StampsOK'
  <2>1. ASSUME NEW i \in 1 .. Len(queue["obd"])
        PROVE  queue["obd"][i].stamp <= now'
    <3>1. queue["obd"] \in Seq(Reports("obd"))
      BY ConstantsOK DEF Inv, QueuesOK
    <3>2. queue["obd"][i].stamp \in Nat
      BY <3>1, StampInRange
    <3> QED
      BY <1>6, <3>2 DEF Inv, StampsOK
  <2>2. ASSUME item # << >>
        PROVE  item[1].stamp <= now'
    <3>1. item[1] \in Reports("obd")
      BY <2>2 DEF Inv, FeedbackOK
    <3> QED
      BY <1>6, <2>2, <3>1, StampInRange DEF Inv, StampsOK
  <2>3. ASSUME NEW s \in Signal
        PROVE  last[s] <= now'
    <3>1. last[s] \in Nat
      BY ConstantsOK DEF Inv, FeedbackOK, LatestOK
    <3> QED
      BY <1>6, <3>1 DEF Inv, StampsOK
  <2> QED
    BY <1>1, <2>1, <2>2, <2>3 DEF Inv, StampsOK, InOrder, NoneBefore
<1> QED
  BY <1>1, <1>3, <1>4, <1>5, <1>7, ViewsStay DEF Inv

LEMMA NextInv == Inv /\ [Next]_vars => Inv'
<1> SUFFICES ASSUME Inv, [Next]_vars
             PROVE  Inv'
  OBVIOUS
<1>1. CASE Handler
  BY <1>1, AcceptsInv, DropsInv DEF Handler
<1>2. CASE Drain
  BY <1>2, DrainPlainInv, DrainObdInv, DrainFeedbackInv, DrainMovesInv, DrainStalenessInv
  DEF Drain, DrainSomeNews
<1>3. CASE Tick
  BY <1>3, TickInv
<1>4. CASE UNCHANGED vars
  <2>1. UNCHANGED << now, arrived, queue, freed, seen, dropped, last_reported_drops, at,
                     item, drops, published, logged, lastDropLog, reports, last, lastStaleLog >>
    BY <1>4 DEF vars, handlerVars, drainVars, feedbackVars
  <2>2. DropsOK'
    BY <2>1 DEF Inv, DropsOK
  <2> QED
    BY <2>1, <2>2, LogsInt, RestStays, ViewsStay DEF Inv
<1> QED
  BY <1>1, <1>2, <1>3, <1>4 DEF Next

LEMMA InvAlways == Spec => []Inv
BY InitInv, NextInv, PTL DEF Spec

-----------------------------------------------------------------------------
\* Types: no queue ever holds more than its ring can, whenever the handlers
\* come between the steps of drain().
THEOREM TypeCorrect == Spec => []TypeOK
<1>1. Inv => TypeOK
  <2> SUFFICES ASSUME Inv
               PROVE  TypeOK
    OBVIOUS
  <2>1. item = << >> \/ item[1] \in Reports("obd")
    BY DEF Inv, FeedbackOK
  <2> QED
    BY <2>1 DEF Inv, QueuesOK, ViewsOK, ViewOK, DropsOK, FeedbackOK, LatestOK, TypeOK
<1> QED
  BY <1>1, InvAlways, PTL

\* drain() warns of drops only when there are more than it last warned of, and
\* never of more than the handlers have counted meanwhile.
THEOREM WarningsAreNews == Spec => DropWarningIsNews
<1>1. Inv /\ [Next]_vars =>
        [lastDropLog' # lastDropLog => logged < logged' /\ logged' <= dropped]_vars
  <2> SUFFICES ASSUME Inv, Next, lastDropLog' # lastDropLog
               PROVE  logged < logged' /\ logged' <= dropped
    OBVIOUS
  <2>1. WarnLogged
    BY DEF Next, Handler, HandlerAccepts, HandlerDrops, Drain, DrainStart, DrainPlain, DrainObd,
       PopAndPublish, DrainFeedback, DrainNext, DrainStaleness, DrainNoNews, DrainSomeNews, DrainNews,
       WarnThrottled, Tick, drainVars
  <2>2. at = WarnDrops /\ logged' = drops
    BY <2>1 DEF WarnLogged, DropWarning
  <2> QED
    BY <2>2 DEF Inv, DropsOK
<1> QED
  BY <1>1, InvAlways, PTL DEF Spec, DropWarningIsNews

\* checkStaleness() is right about every frame it has published: in particular
\* it finds no signal stale that has never been seen.
THEOREM StaleWarningsAreTrue == Spec => StaleWarningsTrue
<1> DEFINE True(s) == lastStaleLog'[s] # lastStaleLog[s] =>
             /\ reports[s] # << >>
             /\ \A i \in 1 .. Len(reports[s]) : now - reports[s][i].stamp > FeedbackTimeout
<1>1. Inv /\ [Next]_vars => [\A s \in Signal : True(s)]_vars
  <2> SUFFICES ASSUME Inv, Next, NEW s \in Signal, lastStaleLog'[s] # lastStaleLog[s]
               PROVE  /\ reports[s] # << >>
                      /\ \A i \in 1 .. Len(reports[s]) :
                           now - reports[s][i].stamp > FeedbackTimeout
    OBVIOUS
  <2>1. CheckStaleness(now)
    BY DEF Next, Handler, HandlerAccepts, HandlerDrops, Drain, DrainStart, DrainPlain, DrainObd,
       PopAndPublish, DrainFeedback, Process, DrainNext, DrainStaleness, DrainNoNews, DrainSomeNews, DrainNews,
       WarnLogged, WarnThrottled, DropWarning, Tick, feedbackVars
  <2>2. Stale(s, now)
    BY <2>1 DEF CheckStaleness
  <2>3. last[s] > 0 /\ now - last[s] > FeedbackTimeout
    BY <2>2 DEF Stale
  <2>4. /\ reports[s] \in Seq(Reports("obd")) /\ reports[s] # << >> /\ last[s] \in 0 .. MaxTime
        /\ \A i \in 1 .. Len(reports[s]) : reports[s][i].stamp <= last[s]
    BY <2>3 DEF Inv, FeedbackOK, LatestOK
  <2>5. ASSUME NEW i \in 1 .. Len(reports[s])
        PROVE  now - reports[s][i].stamp > FeedbackTimeout
    <3>1. reports[s][i] \in Reports("obd")
      BY <2>4
    <3>2. reports[s][i].stamp \in Nat /\ last[s] \in Nat /\ now \in Nat /\ FeedbackTimeout \in Nat
      BY <2>4, <3>1, StampInRange, ConstantsOK, FeedbackAssumption DEF Inv, DropsOK
    <3>3. reports[s][i].stamp <= last[s]
      BY <2>4
    <3> QED
      BY <2>3, <3>2, <3>3
  <2> QED
    BY <2>4, <2>5
<1> QED
  BY <1>1, InvAlways, PTL DEF Spec, StaleWarningsTrue

-----------------------------------------------------------------------------
(* No report goes unaccounted for. *)

\* The accepted reports of all queues, each by its queue and its number.
AllAccepted == UNION {{q} \X Accepted(q) : q \in Queue}

AccountOK == IsFiniteSet(AllAccepted) /\ arrived = dropped + Cardinality(AllAccepted)

LEMMA InAllAccepted ==
  \A x : x \in AllAccepted <=> \E q \in Queue : \E i \in Accepted(q) : x = << q, i >>
BY DEF AllAccepted

LEMMA AccountStays ==
  ASSUME AccountOK, UNCHANGED << arrived, dropped >>,
         \A q \in Queue : Accepted(q)' = Accepted(q)
  PROVE  AccountOK'
<1>1. AllAccepted' = AllAccepted
  BY DEF AllAccepted
<1> QED
  BY <1>1 DEF AccountOK

LEMMA InitAccount == Init => AccountOK
<1> SUFFICES ASSUME Init
             PROVE  AccountOK
  OBVIOUS
<1>1. \A q \in Queue : Accepted(q) = {}
  BY DEF Init, Accepted, Pushed
<1>2. AllAccepted = {}
  BY <1>1, InAllAccepted
<1> QED
  BY <1>2, FS_EmptySet DEF AccountOK, Init

LEMMA AcceptsAccount ==
  ASSUME Inv, AccountOK, NEW q \in Queue, NEW f \in Offered(q), HandlerAccepts(q, f)
  PROVE  AccountOK'
<1>1. /\ arrived' = arrived + 1 /\ dropped' = dropped /\ published' = published
      /\ queue' = [queue EXCEPT ![q] = Append(@, Stamp(f, now))]
  BY DEF HandlerAccepts, drainVars
<1>2. /\ queue = [r \in Queue |-> queue[r]] /\ queue[q] \in Seq(Reports(q))
      /\ published[q] \in Seq(Reports(q))
  BY DEF Inv, QueuesOK
<1>3. queue'[q] = Append(queue[q], Stamp(f, now)) /\ \A r \in Queue : r # q => queue'[r] = queue[r]
  BY <1>1, <1>2
<1>4. Len(queue'[q]) = Len(queue[q]) + 1
  BY <1>2, <1>3, AppendAnything
<1>5. PICK n \in Nat : n = Len(published[q]) + Len(queue[q])
  BY DEF Inv, QueuesOK
<1>6. Accepted(q) = 1 .. n /\ Accepted(q)' = 1 .. n + 1
  <2>1. Len(published'[q]) + Len(queue'[q]) = n + 1
    <3>1. Len(published[q]) \in Nat /\ Len(queue[q]) \in Nat
      BY <1>2
    <3>2. PICK a \in Nat, b \in Nat : a = Len(published[q]) /\ b = Len(queue[q])
      BY <3>1, Zenon
    <3>3. Len(published'[q]) = a /\ Len(queue'[q]) = b + 1 /\ n = a + b
      BY <1>1, <1>4, <1>5, <3>2
    <3> QED
      BY <3>3
  <2> QED
    BY <1>5, <2>1 DEF Accepted, Pushed
<1>7. Accepted(q)' = Accepted(q) \cup {n + 1} /\ n + 1 \notin Accepted(q)
  BY <1>6
<1>8. \A r \in Queue : r # q => Accepted(r)' = Accepted(r)
  BY <1>1, <1>3 DEF Accepted, Pushed
<1>9. \A x : x \in AllAccepted' <=> \E r \in Queue : \E i \in Accepted(r)' : x = << r, i >>
  BY DEF AllAccepted
<1>10. AllAccepted' = AllAccepted \cup {<< q, n + 1 >>}
  BY <1>7, <1>8, <1>9, InAllAccepted
<1>11. << q, n + 1 >> \notin AllAccepted
  BY <1>7, InAllAccepted
<1>12. /\ IsFiniteSet(AllAccepted')
       /\ Cardinality(AllAccepted') = Cardinality(AllAccepted) + 1
  BY <1>10, <1>11, FS_AddElement DEF AccountOK
<1>13. Cardinality(AllAccepted) \in Nat
  BY FS_CardinalityType DEF AccountOK
<1> QED
  BY <1>1, <1>12, <1>13 DEF AccountOK, Inv, DropsOK

\* A pop() moves a report from its queue to its topic.
LEMMA PopAccount ==
  ASSUME Inv, AccountOK, NEW q \in Queue, PopAndPublish(q)
  PROVE  AccountOK'
<1>1. /\ queue[q] # << >> /\ UNCHANGED << arrived, dropped >>
      /\ queue' = [queue EXCEPT ![q] = Tail(@)]
      /\ published' = [published EXCEPT ![q] = Append(@, Head(queue[q]))]
  BY PopFinds DEF PopAndPublish
<1>2. /\ queue = [r \in Queue |-> queue[r]] /\ published = [r \in Queue |-> published[r]]
      /\ queue[q] \in Seq(Reports(q)) /\ published[q] \in Seq(Reports(q))
  BY DEF Inv, QueuesOK
<1>3. /\ queue'[q] = Tail(queue[q]) /\ published'[q] = Append(published[q], Head(queue[q]))
      /\ \A r \in Queue : r # q => queue'[r] = queue[r] /\ published'[r] = published[r]
  BY <1>1, <1>2
<1>4. Len(queue'[q]) = Len(queue[q]) - 1 /\ Len(published'[q]) = Len(published[q]) + 1
  BY <1>1, <1>2, <1>3, TailHolds, AppendAnything
<1>5. Len(published'[q]) + Len(queue'[q]) = Len(published[q]) + Len(queue[q])
  BY <1>2, <1>4
<1>6. \A r \in Queue : Accepted(r)' = Accepted(r)
  BY <1>3, <1>5 DEF Accepted, Pushed
<1> QED
  BY <1>1, <1>6, AccountStays

\* drain() pops from the queue it is at.
LEMMA DrainPops ==
  ASSUME DrainPlain \/ DrainObd
  PROVE  \E q \in Queue : PopAndPublish(q)
<1>1. CASE DrainObd
  BY <1>1, ConstantsOK DEF DrainObd
<1>2. CASE DrainPlain
  <2>1. at \in 1 .. Len(Plain) /\ PopAndPublish(Order[at])
    BY <1>2 DEF DrainPlain
  <2>2. Plain \in Seq(STRING)
    BY DrainAssumption
  <2>3. Len(Order) = Len(Plain) + 1
    BY <2>2, AppendAnything DEF Order
  <2>4. at \in 1 .. Len(Order)
    BY <2>1, <2>2, <2>3
  <2> QED
    BY <2>1, <2>4, ConstantsOK
<1> QED
  BY <1>1, <1>2

LEMMA NextAccount == Inv /\ AccountOK /\ [Next]_vars => AccountOK'
<1> SUFFICES ASSUME Inv, AccountOK, [Next]_vars
             PROVE  AccountOK'
  OBVIOUS
<1>1. ASSUME NEW q \in Queue, HandlerDrops(q)
      PROVE  AccountOK'
  <2>1. arrived' = arrived + 1 /\ dropped' = dropped + 1 /\ queue' = queue /\ published' = published
    BY <1>1 DEF HandlerDrops, CountDrop, drainVars
  <2>2. AllAccepted' = AllAccepted
    BY <2>1 DEF AllAccepted, Accepted, Pushed
  <2>3. Cardinality(AllAccepted) \in Nat
    BY FS_CardinalityType DEF AccountOK
  <2> QED
    BY <2>1, <2>2, <2>3 DEF AccountOK, Inv, DropsOK
<1>2. CASE Handler
  BY <1>1, <1>2, AcceptsAccount DEF Handler
<1>3. CASE DrainPlain \/ DrainObd
  BY <1>3, DrainPops, PopAccount
<1>4. CASE DrainStart \/ DrainFeedback \/ DrainNext \/ DrainStaleness \/ DrainNoNews
           \/ DrainSomeNews \/ WarnLogged \/ WarnThrottled \/ Tick \/ UNCHANGED vars
  <2>1. UNCHANGED << arrived, dropped, queue, published >>
    BY <1>4 DEF DrainStart, DrainFeedback, DrainNext, DrainStaleness, DrainNoNews, DrainSomeNews, DrainNews,
       WarnLogged, WarnThrottled, DropWarning, Tick, vars, handlerVars, drainVars
  <2>2. \A q \in Queue : Accepted(q)' = Accepted(q)
    BY <2>1 DEF Accepted, Pushed
  <2> QED
    BY <2>1, <2>2, AccountStays
<1> QED
  BY <1>2, <1>3, <1>4 DEF Next, Drain, DrainSomeNews

\* Every report that OSCC hands over is published, waits in its queue or is
\* counted in dropped_, whenever the handlers come between the steps of drain().
THEOREM AllAccounted == Spec => []EveryReportAccounted
<1>1. AccountOK => EveryReportAccounted
  BY DEF AccountOK, EveryReportAccounted, AllAccepted
<1> QED
  BY <1>1, InitAccount, NextAccount, InvAlways, PTL DEF Spec

-----------------------------------------------------------------------------
(* What is published on the feedback topics. *)

LEMMA SelectsNothing ==
  ASSUME NEW v
  PROVE  Selects(<< >>, v, {})
<1>1. [i \in 1 .. Len(<< >>) |-> i] \in [1 .. Len(<< >>) -> {}] /\ Len(<< >>) = 0
  OBVIOUS
<1> QED
  BY <1>1 DEF Selects

\* Only the selected places of v count.
LEMMA SelectsSame ==
  ASSUME NEW w, NEW v, NEW x, NEW I, Selects(w, v, I), \A i \in I : x[i] = v[i]
  PROVE  Selects(w, x, I)
<1>1. PICK place \in [1 .. Len(w) -> I] :
        /\ \A i \in 1 .. Len(w) : w[i] = v[place[i]]
        /\ \A i \in 1 .. Len(w) : \A j \in 1 .. i - 1 : place[j] < place[i]
        /\ \A k \in I : \E i \in 1 .. Len(w) : place[i] = k
  BY DEF Selects
<1>2. \A i \in 1 .. Len(w) : w[i] = x[place[i]]
  BY <1>1
<1> QED
  BY <1>1, <1>2 DEF Selects

\* A later place is selected too.
LEMMA SelectsOneMore ==
  ASSUME NEW S, NEW w \in Seq(S), NEW v, NEW I, Selects(w, v, I),
         NEW n \in Nat, \A i \in I : i < n
  PROVE  Selects(Append(w, v[n]), v, I \cup {n})
<1> DEFINE x == Append(w, v[n])
<1> DEFINE m == Len(w) + 1
<1>1. PICK place \in [1 .. Len(w) -> I] :
        /\ \A i \in 1 .. Len(w) : w[i] = v[place[i]]
        /\ \A i \in 1 .. Len(w) : \A j \in 1 .. i - 1 : place[j] < place[i]
        /\ \A k \in I : \E i \in 1 .. Len(w) : place[i] = k
  BY DEF Selects
<1>2. /\ Len(w) \in Nat /\ Len(x) = m /\ x[m] = v[n]
      /\ \A i \in 1 .. Len(w) : x[i] = w[i]
  BY AppendAnything
<1> DEFINE more == [i \in 1 .. Len(x) |-> IF i = m THEN n ELSE place[i]]
<1>3. /\ \A i \in 1 .. Len(x) : i = m \/ i \in 1 .. Len(w)
      /\ m \in 1 .. Len(x) /\ \A i \in 1 .. Len(w) : i \in 1 .. Len(x) /\ i # m
  BY <1>2
<1>4. more[m] = n /\ \A i \in 1 .. Len(w) : more[i] = place[i]
  BY <1>3
<1>5. more \in [1 .. Len(x) -> I \cup {n}]
  BY <1>1, <1>3
<1> HIDE DEF x, more
<1>6. \A i \in 1 .. Len(x) : x[i] = v[more[i]]
  BY <1>1, <1>2, <1>3, <1>4
<1>7. ASSUME NEW i \in 1 .. Len(x), NEW j \in 1 .. i - 1
      PROVE  more[j] < more[i]
  <2>1. j \in 1 .. Len(w)
    BY <1>2
  <2>2. CASE i = m
    BY <1>1, <1>4, <2>1, <2>2
  <2>3. CASE i \in 1 .. Len(w)
    BY <1>1, <1>4, <2>1, <2>3
  <2> QED
    BY <1>3, <2>2, <2>3
<1>8. \A k \in I \cup {n} : \E i \in 1 .. Len(x) : more[i] = k
  BY <1>1, <1>3, <1>4
<1>9. Selects(x, v, I \cup {n})
  BY <1>5, <1>6, <1>7, <1>8 DEF Selects
<1> QED
  BY <1>9 DEF x

\* The places of can_frame whose frames process() has decoded for signal s.
Decoded(s) == {i \in Processed : Decodes(s, published["obd"][i])}

\* The frame in hand is the one published last; each feedback topic carries
\* the frames decoded before it.
FollowsOK ==
  /\ item # << >> => /\ Len(published["obd"]) > 0
                     /\ item = << published["obd"][Len(published["obd"])] >>
  /\ \A s \in Signal : Selects(reports[s], published["obd"], Decoded(s))

LEMMA InitFollows == Init => FollowsOK
<1> SUFFICES ASSUME Init
             PROVE  FollowsOK
  OBVIOUS
<1>1. published["obd"] = << >> /\ item = << >> /\ \A s \in Signal : reports[s] = << >>
  BY ConstantsOK DEF Init, FeedbackInit
<1>2. Processed = {}
  BY <1>1 DEF Processed
<1>3. \A s \in Signal : Decoded(s) = {}
  BY <1>2 DEF Decoded
<1> QED
  BY <1>1, <1>3, SelectsNothing DEF FollowsOK

LEMMA FollowsStays ==
  ASSUME FollowsOK, UNCHANGED << item, reports >>, published'["obd"] = published["obd"]
  PROVE  FollowsOK'
<1>1. Processed' = Processed
  BY DEF Processed
<1>2. \A s \in Signal : Decoded(s)' = Decoded(s)
  BY <1>1 DEF Decoded, Decodes
<1> QED
  BY <1>2 DEF FollowsOK, Selects

\* A frame is published: it is in hand and nothing more is decoded.
LEMMA ObdFollows ==
  ASSUME Inv, FollowsOK, DrainObd
  PROVE  FollowsOK'
<1> DEFINE v == published["obd"]
<1> DEFINE f == Head(queue["obd"])
<1>1. /\ item = << >> /\ item' = << f >> /\ reports' = reports
      /\ published' = [published EXCEPT !["obd"] = Append(@, f)]
  BY DEF DrainObd, PopAndPublish, feedbackVars
<1>2. published'["obd"] = Append(v, f) /\ v \in Seq(Reports("obd"))
  BY <1>1, ConstantsOK DEF Inv, QueuesOK
<1> HIDE DEF f
<1> DEFINE x == published'["obd"]
<1>3. /\ Len(v) \in Nat /\ Len(x) = Len(v) + 1 /\ x[Len(x)] = f
      /\ \A i \in 1 .. Len(v) : x[i] = v[i]
  BY <1>2, AppendAnything
<1>4. Processed = 1 .. Len(v) /\ Processed' = 1 .. Len(v)
  <2>1. Len(item) = 0 /\ Len(item') = 1
    BY <1>1
  <2> QED
    BY <1>3, <2>1 DEF Processed
<1>5. ASSUME NEW s \in Signal
      PROVE  Selects(reports'[s], x, Decoded(s)')
  <2>1. Decoded(s)' = Decoded(s)
    BY <1>3, <1>4 DEF Decoded, Decodes
  <2>2. \A i \in Decoded(s) : x[i] = v[i]
    BY <1>3, <1>4 DEF Decoded
  <2>3. Selects(reports[s], v, Decoded(s))
    BY DEF FollowsOK
  <2> HIDE DEF v, x
  <2> QED
    BY <1>1, <2>1, <2>2, <2>3, SelectsSame
<1> QED
  BY <1>1, <1>3, <1>5 DEF FollowsOK

\* process() takes the frame in hand.
LEMMA ProcessFollows ==
  ASSUME Inv, FollowsOK, DrainFeedback
  PROVE  FollowsOK'
<1> DEFINE v == published["obd"]
<1> DEFINE n == Len(v)
<1>1. /\ item # << >> /\ item' = << >> /\ published' = published
      /\ reports' = [s \in Signal |->
           IF Decodes(s, item[1]) THEN Append(reports[s], item[1]) ELSE reports[s]]
  BY DEF DrainFeedback, Process
<1>2. item = << v[n] >> /\ n \in Nat \ {0}
  BY <1>1, ConstantsOK DEF FollowsOK, Inv, QueuesOK
<1>3. Processed = 1 .. n - 1 /\ Processed' = 1 .. n
  <2>1. Len(item) = 1 /\ Len(item') = 0
    BY <1>1, <1>2
  <2> QED
    BY <1>1, <1>2, <2>1 DEF Processed
<1>4. item[1] = v[n] /\ published'["obd"] = v
  BY <1>1, <1>2
<1> HIDE DEF v, n
<1>5. ASSUME NEW s \in Signal
      PROVE  Selects(reports'[s], v, Decoded(s)')
  <2>1. Selects(reports[s], v, Decoded(s)) /\ reports[s] \in Seq(Reports("obd"))
    BY DEF v, FollowsOK, Inv, FeedbackOK, LatestOK
  <2>2. /\ Decoded(s) = {i \in 1 .. n - 1 : Decodes(s, v[i])}
        /\ Decoded(s)' = {i \in 1 .. n : Decodes(s, v[i])}
    BY <1>3, <1>4 DEF Decoded, Decodes, v
  <2>3. CASE ~ Decodes(s, v[n])
    <3>1. Decoded(s)' = Decoded(s) /\ reports'[s] = reports[s]
      BY <1>1, <1>2, <1>4, <2>2, <2>3
    <3> QED
      BY <2>1, <3>1
  <2>4. CASE Decodes(s, v[n])
    <3>1. Decoded(s)' = Decoded(s) \cup {n} /\ reports'[s] = Append(reports[s], v[n])
      BY <1>1, <1>2, <1>4, <2>2, <2>4
    <3>2. \A i \in Decoded(s) : i < n
      BY <1>2, <2>2
    <3>3. Selects(Append(reports[s], v[n]), v, Decoded(s) \cup {n})
      BY <1>2, <2>1, <3>2, SelectsOneMore
    <3> QED
      BY <3>1, <3>3
  <2> QED
    BY <2>3, <2>4
<1> QED
  BY <1>1, <1>4, <1>5 DEF FollowsOK

LEMMA NextFollows == Inv /\ FollowsOK /\ [Next]_vars => FollowsOK'
<1> SUFFICES ASSUME Inv, FollowsOK, [Next]_vars
             PROVE  FollowsOK'
  OBVIOUS
<1>1. CASE DrainPlain
  <2>1. at \in 1 .. Len(Plain) /\ PopAndPublish(Order[at]) /\ UNCHANGED << item, reports >>
    BY <1>1 DEF DrainPlain, PopAndPublish, feedbackVars
  <2>2. Plain \in Seq(STRING) /\ \A i \in 1 .. Len(Plain) : Plain[i] # "obd"
    BY DrainAssumption
  <2>3. Order[at] # "obd"
    BY <2>1, <2>2, AppendAnything DEF Order
  <2>4. published'["obd"] = published["obd"]
    BY <2>1, <2>3, ConstantsOK DEF PopAndPublish, Inv, QueuesOK
  <2> QED
    BY <2>1, <2>4, FollowsStays
<1>2. CASE Handler \/ DrainStart \/ DrainNext \/ DrainStaleness \/ DrainNoNews
           \/ DrainSomeNews \/ WarnLogged \/ WarnThrottled \/ Tick \/ UNCHANGED vars
  <2>1. UNCHANGED << published, item, reports >>
    BY <1>2 DEF Handler, HandlerAccepts, HandlerDrops, DrainStart, DrainNext, DrainStaleness,
       CheckStaleness, DrainNoNews, DrainSomeNews, DrainNews, WarnLogged, WarnThrottled, DropWarning, Tick,
       vars, handlerVars, drainVars, feedbackVars
  <2> QED
    BY <2>1, FollowsStays
<1> QED
  BY <1>1, <1>2, ObdFollows, ProcessFollows DEF Next, Drain, DrainSomeNews

-----------------------------------------------------------------------------
(* fitsIn() and the DBC convention. *)

\* A frame that holds the whole signal is never refused.
LEMMA HoldingFramesPass ==
  ASSUME NEW s \in AllSpecs, NEW d \in Dlc, DbcFits(s, d)
  PROVE  FitsIn(s, d) /\ FitsIn(s, 8)
<1>1. s.start_bit \in 0 .. 63 /\ s.bit_length \in 1 .. 64
  BY DEF AllSpecs
<1>2. CASE s.little_endian
  BY <1>1, <1>2 DEF FitsIn, DbcFits, Usable, Dlc
<1>3. CASE ~ s.little_endian
  <2> DEFINE b == s.start_bit \div 8
  <2> DEFINE r == s.start_bit % 8
  <2> DEFINE c == (s.bit_length + 7) \div 8
  <2>1. b \in 0 .. 7 /\ r \in 0 .. 7
    BY <1>1
  <2>2. 8 * b + (7 - r) + s.bit_length <= 8 * d
    BY <1>3 DEF DbcFits, Transmitted
  <2>3. c \in Int /\ 8 * c <= s.bit_length + 7
    BY <1>1
  <2>4. s.bit_length \in 1 .. 64 /\ d \in 0 .. 8 /\ Usable(d) = d
    BY <1>1 DEF Dlc, Usable
  <2> HIDE DEF b, r, c
  <2>5. 8 * (b + c) <= 8 * d + 7 /\ 8 * b < 8 * d
    BY <2>1, <2>2, <2>3, <2>4
  <2>6. (b + c) * 8 <= d * 8 + 7 /\ b * 8 < d * 8 /\ d * 8 <= 8 * 8
    BY <2>1, <2>3, <2>4, <2>5
  <2>7. (b + c) * 8 <= 8 * 8 + 7 /\ b * 8 < 8 * 8 /\ Usable(8) = 8
    BY <2>1, <2>3, <2>4, <2>6 DEF Usable
  <2> QED
    BY <1>3, <2>4, <2>6, <2>7 DEF FitsIn, b, c
<1> QED
  BY <1>2, <1>3

\* fitsIn() counts whole bytes: it is exact when the signal starts at the top
\* of its first byte.
LEMMA WholeBytesExact ==
  ASSUME NEW s \in AllSpecs, NEW d \in Dlc, s.little_endian \/ s.start_bit % 8 = 7
  PROVE  FitsIn(s, d) <=> DbcFits(s, d)
<1>1. s.start_bit \in 0 .. 63 /\ s.bit_length \in 1 .. 64
  BY DEF AllSpecs
<1> QED
  BY <1>1 DEF FitsIn, DbcFits, Usable, Dlc, Transmitted

\* A raw frame has a length a CAN frame may have.
LEMMA RawFrames ==
  ASSUME Inv, NEW i \in Processed
  PROVE  published["obd"][i] \in Reports("obd") /\ published["obd"][i].dlc \in Dlc
<1>1. published["obd"] \in Seq(Reports("obd")) /\ Len(item) \in {0, 1}
  <2>1. item = << >> => Len(item) = 0
    OBVIOUS
  <2>2. \A f \in Reports("obd") : Len(<< f >>) = 1
    OBVIOUS
  <2> QED
    BY <2>1, <2>2, ConstantsOK DEF Inv, QueuesOK, FeedbackOK
<1>2. i \in 1 .. Len(published["obd"])
  BY <1>1 DEF Processed
<1>3. published["obd"][i] \in Reports("obd")
  BY <1>1, <1>2
<1>4. \A f \in Reports("obd") : f.dlc \in Dlc
  BY DrainAssumption DEF Reports, Offered, Stamp
<1> QED
  BY <1>3, <1>4

\* process() decodes every frame that carries the signal.
LEMMA CarryingFramesDecoded ==
  ASSUME NEW s \in Signal, NEW f \in Reports("obd"), f.dlc \in Dlc, Carries(s, f)
  PROVE  Decodes(s, f)
BY HoldingFramesPass, FeedbackAssumption DEF Carries, Decodes, Enabled

\* Whatever the configuration, a feedback topic carries exactly the frames of
\* can_frame that process() lets pass, in their order; and it misses none that
\* holds the whole signal.
TopicsAreSelections ==
  \A s \in Signal :
    /\ Selects(reports[s], published["obd"], Decoded(s))
    /\ \A i \in Processed : Carries(s, published["obd"][i]) => i \in Decoded(s)

\* drain() publishes the raw frame first, process() decodes it at most once.
THEOREM FeedbackSelects == Spec => []TopicsAreSelections
<1>1. Inv /\ FollowsOK => TopicsAreSelections
  BY RawFrames, CarryingFramesDecoded DEF FollowsOK, TopicsAreSelections, Decoded
<1> QED
  BY <1>1, InitFollows, NextFollows, InvAlways, PTL DEF Spec

\* Every enabled signal is Intel, or starts at the top bit of its first byte.
WholeBytes ==
  \A s \in Signal : Config[s].enabled =>
    Config[s].layout.little_endian \/ Config[s].layout.start_bit % 8 = 7

\* For such signals fitsIn() is exact, and the feedback topics carry exactly
\* the frames that hold the whole signal by the DBC convention.
THEOREM FeedbackFollows ==
  ASSUME WholeBytes
  PROVE  Spec => []FeedbackFollowsRaw
<1>1. ASSUME NEW s \in Signal, NEW f \in Reports("obd"), f.dlc \in Dlc
      PROVE  Decodes(s, f) <=> Carries(s, f)
  <2>1. ASSUME Decodes(s, f)
        PROVE  Carries(s, f)
    <3>1. Config[s].enabled /\ Config[s].layout \in AllSpecs /\ FitsIn(Config[s].layout, f.dlc)
      BY <2>1, FeedbackAssumption DEF Decodes, Enabled
    <3>2. DbcFits(Config[s].layout, f.dlc)
      BY <1>1, <3>1, WholeBytesExact DEF WholeBytes
    <3> QED
      BY <2>1, <3>1, <3>2 DEF Decodes, Carries
  <2> QED
    BY <1>1, <2>1, CarryingFramesDecoded
<1>2. Inv /\ FollowsOK => FeedbackFollowsRaw
  <2> SUFFICES ASSUME Inv, FollowsOK, NEW s \in Signal
               PROVE  Selects(reports[s], published["obd"],
                        {i \in Processed : Carries(s, published["obd"][i])})
    BY DEF FeedbackFollowsRaw
  <2>1. Decoded(s) = {i \in Processed : Carries(s, published["obd"][i])}
    BY <1>1, RawFrames DEF Decoded
  <2> QED
    BY <2>1 DEF FollowsOK
<1> QED
  BY <1>2, InitFollows, NextFollows, InvAlways, PTL DEF Spec

-----------------------------------------------------------------------------
(* The throttle and the first drop. *)

\* Once drain() has moved last_reported_drops_ on, a warning has been logged:
\* the throttle may silence later news, never the first.
FirstNewsLogged == last_reported_drops > 0 => logged > 0

NeverLogged == logged = 0 => last_reported_drops = 0 /\ lastDropLog = - DropWarnWindow

LEMMA NextNeverLogged == Inv /\ NeverLogged /\ [Next]_vars => NeverLogged'
<1> SUFFICES ASSUME Inv, NeverLogged, [Next]_vars
             PROVE  NeverLogged'
  OBVIOUS
<1>1. CASE WarnLogged
  <2>1. logged' = drops /\ last_reported_drops < drops /\ last_reported_drops \in Nat
    BY <1>1 DEF WarnLogged, DropWarning, Inv, DropsOK
  <2> QED
    BY <2>1 DEF NeverLogged, Inv, DropsOK
<1>2. CASE WarnThrottled
  <2>1. ~ LogOpen(now) /\ logged' = logged
    BY <1>2 DEF WarnThrottled
  <2>2. lastDropLog # - DropWarnWindow
    BY <2>1, DrainAssumption, ConstantsOK DEF LogOpen, Inv, DropsOK
  <2> QED
    BY <2>1, <2>2 DEF NeverLogged
<1>3. CASE Handler \/ DrainStart \/ DrainPlain \/ DrainObd \/ DrainFeedback \/ DrainNext
           \/ DrainStaleness \/ DrainNoNews \/ DrainSomeNews \/ Tick \/ UNCHANGED vars
  <2>1. UNCHANGED << logged, last_reported_drops, lastDropLog >>
    BY <1>3 DEF Handler, HandlerAccepts, HandlerDrops, DrainStart, DrainPlain, DrainObd,
       PopAndPublish, DrainFeedback, DrainNext, DrainStaleness, DrainNoNews, DrainSomeNews, DrainNews, Tick,
       vars, drainVars
  <2> QED
    BY <2>1 DEF NeverLogged
<1> QED
  BY <1>1, <1>2, <1>3 DEF Next, Drain, DrainSomeNews

\* The safety half of FirstDropLogged, for every DropWarnWindow.
THEOREM FirstNewsIsLogged == Spec => []FirstNewsLogged
<1>1. Init => NeverLogged
  BY DEF Init, NeverLogged
<1>2. Inv /\ NeverLogged => FirstNewsLogged
  BY DEF Inv, DropsOK, NeverLogged, FirstNewsLogged
<1> QED
  BY <1>1, <1>2, NextNeverLogged, InvAlways, PTL DEF Spec

-----------------------------------------------------------------------------
(* No silence is overlooked. *)

\* Each checkStaleness() leaves a warning no older than the throttle's window
\* for every signal whose latest frame is past feedback_timeout.
NoSilenceOverlooked ==
  [][DrainStaleness =>
       \A s \in Signal :
         /\ reports[s] # << >>
         /\ now - reports[s][Len(reports[s])].stamp > FeedbackTimeout
         => now - lastStaleLog'[s] <= StaleWarnWindow]_vars

\* What has been published of a signal shows in the memory of it.
Remembered ==
  \A s \in Signal : reports[s] # << >> =>
    Enabled(s) /\ last[s] = reports[s][Len(reports[s])].stamp

LEMMA NextRemembered == Inv /\ Remembered /\ [Next]_vars => Remembered'
<1> SUFFICES ASSUME Inv, Remembered, [Next]_vars
             PROVE  Remembered'
  OBVIOUS
<1>1. CASE DrainFeedback
  <2>1. PICK f \in Reports("obd") : item = << f >>
    BY <1>1 DEF DrainFeedback, Inv, FeedbackOK
  <2>2. /\ reports' = [s \in Signal |-> IF Decodes(s, f) THEN Append(reports[s], f) ELSE reports[s]]
        /\ last' = [s \in Signal |-> IF Decodes(s, f) THEN f.stamp ELSE last[s]]
    BY <1>1, <2>1 DEF DrainFeedback, Process
  <2>3. ASSUME NEW s \in Signal, Decodes(s, f)
        PROVE  Enabled(s) /\ last'[s] = reports'[s][Len(reports'[s])].stamp
    <3>1. reports[s] \in Seq(Reports("obd"))
      BY DEF Inv, FeedbackOK, LatestOK
    <3>2. /\ Len(Append(reports[s], f)) = Len(reports[s]) + 1
          /\ Append(reports[s], f)[Len(reports[s]) + 1] = f
      BY <3>1, AppendHolds
    <3>3. reports'[s] = Append(reports[s], f) /\ last'[s] = f.stamp /\ Enabled(s)
      BY <2>2, <2>3 DEF Decodes
    <3> QED
      BY <3>2, <3>3
  <2>4. ASSUME NEW s \in Signal, ~ Decodes(s, f)
        PROVE  reports'[s] = reports[s] /\ last'[s] = last[s]
    BY <2>2, <2>4
  <2> QED
    BY <2>3, <2>4 DEF Remembered
<1>2. CASE Handler \/ DrainStart \/ DrainPlain \/ DrainObd \/ DrainNext \/ DrainStaleness
           \/ DrainNoNews \/ DrainSomeNews \/ WarnLogged \/ WarnThrottled \/ Tick \/ UNCHANGED vars
  <2>1. UNCHANGED << reports, last >>
    BY <1>2 DEF Handler, HandlerAccepts, HandlerDrops, DrainStart, DrainPlain, DrainObd,
       PopAndPublish, DrainNext, DrainStaleness, CheckStaleness, DrainNoNews, DrainSomeNews, DrainNews,
       WarnLogged, WarnThrottled, DropWarning, Tick, vars, feedbackVars
  <2> QED
    BY <2>1 DEF Remembered
<1> QED
  BY <1>1, <1>2 DEF Next, Drain, DrainSomeNews

\* The safety half of SilenceNoticed, for every time-out and window: what
\* remains for fairness is that drain() and the clock go on.
THEOREM SilenceIsNotOverlooked == Spec => NoSilenceOverlooked
<1> DEFINE Warned(s) == /\ reports[s] # << >>
                        /\ now - reports[s][Len(reports[s])].stamp > FeedbackTimeout
                        => now - lastStaleLog'[s] <= StaleWarnWindow
<1>1. Init => Remembered
  BY DEF Init, FeedbackInit, Remembered
<1>2. Inv /\ Remembered /\ [Next]_vars => [DrainStaleness => \A s \in Signal : Warned(s)]_vars
  <2> SUFFICES ASSUME Inv, Remembered, DrainStaleness, NEW s \in Signal, reports[s] # << >>,
                      now - reports[s][Len(reports[s])].stamp > FeedbackTimeout
               PROVE  now - lastStaleLog'[s] <= StaleWarnWindow
    OBVIOUS
  <2>1. reports[s] \in Seq(Reports("obd")) /\ lastStaleLog[s] \in Int
    BY DEF Inv, FeedbackOK, LatestOK
  <2>2. reports[s][Len(reports[s])] \in Reports("obd")
    BY <2>1
  <2>3. Enabled(s) /\ last[s] > 0 /\ now - last[s] > FeedbackTimeout
    BY <2>2, StampInRange, ConstantsOK DEF Remembered
  <2>4. Stale(s, now)
    BY <2>3 DEF Stale
  <2>5. lastStaleLog'[s] = IF now >= lastStaleLog[s] + StaleWarnWindow THEN now ELSE lastStaleLog[s]
    BY <2>4 DEF DrainStaleness, CheckStaleness
  <2>6. now \in Int /\ StaleWarnWindow \in Nat
    BY FeedbackAssumption DEF Inv, DropsOK
  <2> QED
    BY <2>1, <2>5, <2>6
<1> QED
  BY <1>1, <1>2, NextRemembered, InvAlways, PTL DEF Spec, NoSilenceOverlooked

=============================================================================
