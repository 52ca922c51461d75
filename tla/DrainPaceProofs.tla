--------------------------- MODULE DrainPaceProofs ---------------------------
(***************************************************************************)
(* Proofs about DrainPace for every set of queues of any size, any report  *)
(* periods and any cost of a step.                                         *)
(***************************************************************************)
EXTENDS DrainPace, TLAPS

-----------------------------------------------------------------------------
(* Multiples of a report period. *)

LEMMA ProductNat ==
  ASSUME NEW k \in Nat, NEW p \in Nat
  PROVE  k * p \in Nat
OBVIOUS

LEMMA OneMore ==
  ASSUME NEW k \in Int, NEW p \in Nat
  PROVE  (k + 1) * p = k * p + p
OBVIOUS

LEMMA ProductsOrdered ==
  ASSUME NEW j \in Nat, NEW k \in Nat, NEW p \in Nat, j <= k
  PROVE  j * p <= k * p
<1>1. k - j \in Nat /\ (k - j) * p \in Nat
  BY ProductNat
<1>2. k * p = j * p + (k - j) * p
  OBVIOUS
<1>3. j * p \in Nat /\ k * p \in Nat
  BY ProductNat
<1> QED
  BY <1>1, <1>2, <1>3

-----------------------------------------------------------------------------
(* The inductive invariant. *)

\* The reports in a queue came one by one after it was last found empty.
Backlog(q) ==
  waiting[q] = 0 \/ (waiting[q] - 1) * ReportPeriod[q] + since[q] <= age[q]

\* TypeOK for one queue, with its Backlog.
QueueOK(q) ==
  /\ waiting[q] \in 0 .. Depth[q] - 1
  /\ since[q] \in 0 .. ReportPeriod[q]
  /\ age[q] \in 0 .. Slack(q)
  /\ Backlog(q)

PlacesOK == at \in Idle .. Rest /\ spent \in 0 .. Cost

FunctionsOK ==
  /\ waiting = [q \in Queue |-> waiting[q]]
  /\ since = [q \in Queue |-> since[q]]
  /\ age = [q \in Queue |-> age[q]]

Inv == FunctionsOK /\ PlacesOK /\ \A q \in Queue : QueueOK(q)

LEMMA ConstantsOK ==
  ASSUME NEW q \in Queue
  PROVE  /\ Depth[q] \in Nat /\ Depth[q] - 1 \in Nat \ {0} /\ ReportPeriod[q] \in Nat
         /\ Slack(q) \in Nat
<1>1. Depth[q] \in Nat \ {0, 1} /\ ReportPeriod[q] \in Nat
  BY PaceAssumption
<1>2. Depth[q] - 1 \in Nat \ {0}
  BY <1>1
<1> QED
  BY <1>1, <1>2, ProductNat DEF Slack

LEMMA OrderOK ==
  /\ Len(Order) \in Nat \ {0}
  /\ \A i \in 1 .. Len(Order) : Order[i] \in Queue
BY PaceAssumption DEF Queue

\* A step that touches only the entries of q, and keeps QueueOK there.
LEMMA OneQueue ==
  ASSUME Inv, NEW q \in Queue, QueueOK(q)', PlacesOK', FunctionsOK',
         \A r \in Queue : r # q =>
           waiting'[r] = waiting[r] /\ since'[r] = since[r] /\ age'[r] = age[r]
  PROVE  Inv'
<1>1. ASSUME NEW r \in Queue, r # q
      PROVE  QueueOK(r)'
  <2>1. QueueOK(r)
    BY DEF Inv
  <2> QED
    BY <1>1, <2>1 DEF QueueOK, Backlog, Slack
<1> QED
  BY <1>1 DEF Inv

LEMMA InitInv == Init => Inv
<1> SUFFICES ASSUME Init
             PROVE  Inv
  OBVIOUS
<1>1. FunctionsOK
  BY DEF Init, FunctionsOK
<1>2. PlacesOK
  BY OrderOK, PaceAssumption DEF Init, PlacesOK, Idle, Rest
<1>3. ASSUME NEW q \in Queue
      PROVE  QueueOK(q)
  <2>1. waiting[q] = 0 /\ since[q] = ReportPeriod[q] /\ age[q] = 0
    BY DEF Init
  <2> QED
    BY <2>1, ConstantsOK DEF QueueOK, Backlog
<1> QED
  BY <1>1, <1>2, <1>3 DEF Inv

LEMMA AcceptedInv ==
  ASSUME Inv, NEW q \in Queue, Accepted(q)
  PROVE  Inv'
<1>1. /\ since[q] = ReportPeriod[q] /\ since' = [since EXCEPT ![q] = 0]
      /\ waiting[q] < Depth[q] - 1 /\ waiting' = [waiting EXCEPT ![q] = waiting[q] + 1]
      /\ UNCHANGED << age, at, spent >>
  BY DEF Accepted, Arrives, Room
<1>2. QueueOK(q) /\ FunctionsOK /\ PlacesOK
  BY DEF Inv
<1>3. /\ waiting' = [r \in Queue |-> IF r = q THEN waiting[q] + 1 ELSE waiting[r]]
      /\ since' = [r \in Queue |-> IF r = q THEN 0 ELSE since[r]]
  BY <1>1, <1>2 DEF FunctionsOK
<1>4. FunctionsOK'
  BY <1>1, <1>2, <1>3 DEF FunctionsOK
<1> DEFINE w == waiting[q]
           p == ReportPeriod[q]
           a == age[q]
<1>5. /\ waiting'[q] = w + 1 /\ since'[q] = 0 /\ age'[q] = a
      /\ w \in Nat /\ p \in Nat /\ a \in 0 .. Slack(q) /\ Slack(q) \in Nat
      /\ w + 1 \in 0 .. Depth[q] - 1
      /\ w = 0 \/ (w - 1) * p + p <= a
  BY <1>1, <1>2, <1>3, ConstantsOK DEF QueueOK, Backlog
<1> HIDE DEF w, p, a
<1>6. w * p = (w - 1) * p + p
  BY <1>5, OneMore
<1>7. w * p + 0 <= a
  BY <1>5, <1>6
<1>8. QueueOK(q)'
  <2>1. waiting'[q] - 1 = w
    BY <1>5
  <2>2. (waiting'[q] - 1) * p + since'[q] <= age'[q]
    BY <1>5, <1>7, <2>1, Zenon
  <2>3. Backlog(q)'
    BY <2>2 DEF Backlog, p
  <2>4. since'[q] \in 0 .. ReportPeriod[q]
    BY <1>5 DEF p
  <2> QED
    BY <1>5, <2>3, <2>4 DEF QueueOK, Slack
<1>9. PlacesOK'
  BY <1>1, <1>2 DEF PlacesOK, Idle, Rest
<1> QED
  BY <1>1, <1>3, <1>4, <1>8, <1>9, OneQueue

LEMMA DroppedInv ==
  ASSUME Inv, NEW q \in Queue, Dropped(q)
  PROVE  Inv'
<1>1. /\ since' = [since EXCEPT ![q] = 0]
      /\ since[q] = ReportPeriod[q]
      /\ UNCHANGED << waiting, age, at, spent >>
  BY DEF Dropped, Arrives
<1>2. QueueOK(q) /\ FunctionsOK /\ PlacesOK
  BY DEF Inv
<1>3. since' = [r \in Queue |-> IF r = q THEN 0 ELSE since[r]]
  BY <1>1, <1>2 DEF FunctionsOK
<1>4. FunctionsOK'
  BY <1>1, <1>2, <1>3 DEF FunctionsOK
<1>5. QueueOK(q)'
  <2> DEFINE m == (waiting[q] - 1) * ReportPeriod[q]
  <2>1. /\ waiting'[q] = waiting[q] /\ age'[q] = age[q] /\ since'[q] = 0
        /\ waiting[q] \in Nat /\ ReportPeriod[q] \in Nat /\ age[q] \in Nat
    BY <1>1, <1>2, <1>3, ConstantsOK DEF QueueOK
  <2>2. m \in Int
    BY <2>1
  <2>3. waiting[q] = 0 \/ m + ReportPeriod[q] <= age[q]
    BY <1>1, <1>2 DEF QueueOK, Backlog
  <2>4. (waiting'[q] - 1) * ReportPeriod[q] = m
    BY <2>1
  <2> HIDE DEF m
  <2>5. waiting[q] = 0 \/ m + 0 <= age[q]
    BY <2>1, <2>2, <2>3
  <2>6. Backlog(q)'
    BY <2>1, <2>4, <2>5, Zenon DEF Backlog
  <2> QED
    BY <1>2, <2>1, <2>6 DEF QueueOK, Slack
<1>6. PlacesOK'
  BY <1>1, <1>2 DEF PlacesOK, Idle, Rest
<1> QED
  BY <1>1, <1>3, <1>4, <1>5, <1>6, OneQueue

LEMMA PopInv ==
  ASSUME Inv, Pop
  PROVE  Inv'
<1>1. PICK q \in Queue : q = Order[at]
  BY OrderOK DEF Pop
<1>2. /\ at \in 1 .. Len(Order) /\ waiting[q] > 0
      /\ waiting' = [waiting EXCEPT ![q] = waiting[q] - 1] /\ spent' = 0
      /\ UNCHANGED << since, age, at >>
  BY <1>1 DEF Pop
<1>3. QueueOK(q) /\ FunctionsOK /\ PlacesOK
  BY DEF Inv
<1>4. waiting' = [r \in Queue |-> IF r = q THEN waiting[q] - 1 ELSE waiting[r]]
  BY <1>2, <1>3 DEF FunctionsOK
<1>5. FunctionsOK'
  BY <1>2, <1>3, <1>4 DEF FunctionsOK
<1> DEFINE w == waiting[q]
           p == ReportPeriod[q]
           a == age[q]
           s == since[q]
<1>6. /\ waiting'[q] = w - 1 /\ since'[q] = s /\ age'[q] = a
      /\ w \in Nat \ {0} /\ p \in Nat /\ s \in 0 .. p /\ a \in 0 .. Slack(q) /\ Slack(q) \in Nat
      /\ w - 1 \in 0 .. Depth[q] - 1
      /\ (w - 1) * p + s <= a
  <2>1. waiting'[q] = w - 1 /\ since'[q] = s /\ age'[q] = a
    BY <1>2, <1>4
  <2>2. /\ w \in 0 .. Depth[q] - 1 /\ w > 0 /\ Depth[q] \in Nat
        /\ p \in Nat /\ s \in 0 .. p /\ a \in 0 .. Slack(q) /\ Slack(q) \in Nat
    BY <1>2, <1>3, ConstantsOK DEF QueueOK
  <2>3. w \in Nat \ {0} /\ w - 1 \in 0 .. Depth[q] - 1
    BY <2>2
  <2>4. w # 0 /\ Backlog(q)
    BY <1>3, <2>3 DEF QueueOK
  <2>5. (w - 1) * p + s <= a
    BY <2>4 DEF Backlog
  <2> QED
    BY <2>1, <2>2, <2>3, <2>5
<1>7. QueueOK(q)'
  <2> HIDE DEF w, p, a, s
  <2>1. w - 2 \in Int /\ (w - 2) * p \in Int
    BY <1>6
  <2>2. ((w - 2) + 1) * p = (w - 2) * p + p
    BY <1>6, <2>1, OneMore
  <2>3. (w - 2) + 1 = w - 1 /\ (w - 1) - 1 = w - 2
    BY <1>6
  <2>4. (w - 2) * p + p + s <= a
    BY <1>6, <2>2, <2>3
  <2>5. (w - 2) * p + s <= a
    BY <1>6, <2>1, <2>4
  <2>6. (waiting'[q] - 1) * p + since'[q] <= age'[q]
    BY <1>6, <2>3, <2>5, Zenon
  <2>7. Backlog(q)'
    BY <2>6 DEF Backlog, p
  <2>8. since'[q] \in 0 .. ReportPeriod[q]
    BY <1>6 DEF p
  <2> QED
    BY <1>6, <2>7, <2>8 DEF QueueOK, Slack
<1>8. PlacesOK'
  BY <1>2, <1>3, PaceAssumption DEF PlacesOK, Idle, Rest
<1> QED
  BY <1>2, <1>4, <1>5, <1>7, <1>8, OneQueue

LEMMA FindsEmptyInv ==
  ASSUME Inv, FindsEmpty
  PROVE  Inv'
<1>1. PICK q \in Queue : q = Order[at]
  BY OrderOK DEF FindsEmpty
<1>2. /\ at \in 1 .. Len(Order) /\ waiting[q] = 0
      /\ age' = [age EXCEPT ![q] = 0] /\ at' = at + 1 /\ spent' = 0
      /\ UNCHANGED << waiting, since >>
  BY <1>1 DEF FindsEmpty, After
<1>3. QueueOK(q) /\ FunctionsOK /\ PlacesOK
  BY DEF Inv
<1>4. age' = [r \in Queue |-> IF r = q THEN 0 ELSE age[r]]
  BY <1>2, <1>3 DEF FunctionsOK
<1>5. FunctionsOK'
  BY <1>2, <1>3, <1>4 DEF FunctionsOK
<1>6. QueueOK(q)'
  <2>1. waiting'[q] = 0 /\ age'[q] = 0 /\ since'[q] = since[q]
    BY <1>2, <1>4
  <2> QED
    BY <1>3, <2>1, ConstantsOK DEF QueueOK, Backlog, Slack
<1>7. PlacesOK'
  BY <1>2, <1>3, OrderOK, PaceAssumption DEF PlacesOK, Idle, Rest
<1> QED
  BY <1>2, <1>4, <1>5, <1>6, <1>7, OneQueue

LEMMA TickInv ==
  ASSUME Inv, Tick
  PROVE  Inv'
<1>1. /\ since' = [q \in Queue |-> Least(since[q] + 1, ReportPeriod[q])]
      /\ age' = [q \in Queue |-> Least(age[q] + 1, Slack(q))]
      /\ UNCHANGED << waiting, at >>
      /\ spent' = spent \/ (spent < Cost /\ spent' = spent + 1)
  BY DEF Tick
<1>2. FunctionsOK /\ PlacesOK
  BY DEF Inv
<1>3. FunctionsOK'
  BY <1>1, <1>2 DEF FunctionsOK
<1>4. PlacesOK'
  BY <1>1, <1>2, PaceAssumption DEF PlacesOK, Idle, Rest
<1>5. ASSUME NEW q \in Queue
      PROVE  QueueOK(q)'
  <2> DEFINE w == waiting[q]
             p == ReportPeriod[q]
             a == age[q]
             s == since[q]
             d == Depth[q] - 1
             m == (w - 1) * p
             f == Slack(q)
  <2>1. /\ QueueOK(q) /\ d \in Nat \ {0} /\ p \in Nat /\ f \in Nat /\ f = d * p
    BY ConstantsOK DEF Inv, Slack
  <2>2. /\ w \in 0 .. d /\ s \in 0 .. p /\ a \in 0 .. f
        /\ w = 0 \/ m + s <= a
    BY <2>1 DEF QueueOK, Backlog
  <2>3. waiting'[q] = w /\ since'[q] = Least(s + 1, p) /\ age'[q] = Least(a + 1, f)
    BY <1>1
  <2>4. w = 0 \/ m + p <= f
    <3> HIDE DEF f, p, w, d
    <3>1. w = 0 \/ (w - 1 \in Nat /\ w \in Nat /\ w <= d)
      BY <2>1, <2>2
    <3>2. w = 0 \/ (m + p = w * p /\ w * p <= d * p)
      <4>1. CASE w # 0
        <5>1. ((w - 1) + 1) * p = m + p
          BY <2>1, <3>1, <4>1, OneMore
        <5>2. (w - 1) + 1 = w
          BY <3>1, <4>1
        <5>3. w * p <= d * p
          BY <2>1, <3>1, <4>1, ProductsOrdered
        <5> QED
          BY <5>1, <5>2, <5>3
      <4> QED
        BY <4>1
    <3> QED
      BY <2>1, <3>2
  <2>5. m \in Int
    BY <2>1, <2>2
  <2> HIDE DEF m, f
  <2>6. w = 0 \/ m + Least(s + 1, p) <= Least(a + 1, f)
    <3> HIDE DEF w, s, p, a
    <3> QED
      BY <2>1, <2>2, <2>4, <2>5 DEF Least
  <2>7. /\ Least(s + 1, p) \in 0 .. p /\ Least(a + 1, f) \in 0 .. f
    <3> HIDE DEF w, s, p, a
    <3> QED
      BY <2>1, <2>2 DEF Least
  <2>8. Backlog(q)'
    <3>1. (waiting'[q] - 1) * ReportPeriod[q] = m
      BY <2>3 DEF m
    <3> QED
      BY <2>3, <2>6, <3>1, Zenon DEF Backlog
  <2> QED
    BY <2>2, <2>3, <2>7, <2>8 DEF QueueOK, f, Slack
<1> QED
  BY <1>3, <1>4, <1>5 DEF Inv

\* Start and Finish only move drain() along.
LEMMA PlacesInv ==
  ASSUME Inv, UNCHANGED << waiting, since, age >>, at' \in Idle .. Rest, spent' \in 0 .. Cost
  PROVE  Inv'
<1>1. FunctionsOK' /\ PlacesOK'
  BY DEF Inv, FunctionsOK, PlacesOK, Idle, Rest
<1>2. ASSUME NEW q \in Queue
      PROVE  QueueOK(q)'
  <2>1. QueueOK(q)
    BY DEF Inv
  <2> QED
    BY <2>1 DEF QueueOK, Backlog, Slack
<1> QED
  BY <1>1, <1>2 DEF Inv

LEMMA NextInv == Inv /\ [Next]_vars => Inv'
<1> SUFFICES ASSUME Inv, [Next]_vars
             PROVE  Inv'
  OBVIOUS
<1>1. Idle \in Idle .. Rest /\ 1 \in Idle .. Rest /\ 0 \in 0 .. Cost
  BY OrderOK, PaceAssumption DEF Idle, Rest
<1>2. CASE Handler
  BY <1>2, AcceptedInv, DroppedInv DEF Handler
<1>3. CASE Start
  BY <1>1, <1>3, PlacesInv DEF Start
<1>4. CASE Pop
  BY <1>4, PopInv
<1>5. CASE FindsEmpty
  BY <1>5, FindsEmptyInv
<1>6. CASE Finish
  BY <1>1, <1>6, PlacesInv DEF Finish
<1>7. CASE Tick
  BY <1>7, TickInv
<1>8. CASE UNCHANGED vars
  <2>1. at \in Idle .. Rest /\ spent \in 0 .. Cost
    BY DEF Inv, PlacesOK
  <2>2. UNCHANGED << waiting, since, age >> /\ at' = at /\ spent' = spent
    BY <1>8 DEF vars
  <2> QED
    BY <2>1, <2>2, PlacesInv
<1> QED
  BY <1>2, <1>3, <1>4, <1>5, <1>6, <1>7, <1>8 DEF Next, Drain

-----------------------------------------------------------------------------
(* The theorems. *)

\* Every variable keeps its type: in particular no queue is ever filled beyond
\* the N - 1 reports its ring can hold, however the handlers and drain() meet.
THEOREM TypeCorrect == Spec => []TypeOK
<1>1. Inv => TypeOK
  BY DEF Inv, QueueOK, PlacesOK, TypeOK
<1> QED
  BY InitInv, NextInv, <1>1, PTL DEF Spec

\* The promise of oscc_to_ros.hpp:74 for every depth and report period: no
\* report is dropped unless drain() has failed to find its queue empty for
\* Depth - 1 report periods.
THEOREM SlackAlways == Spec => SlackHolds
<1>1. ASSUME Inv, NEW q \in Queue, Dropped(q)
      PROVE  age[q] = Slack(q)
  <2> DEFINE w == waiting[q]
             p == ReportPeriod[q]
             a == age[q]
             d == Depth[q] - 1
  <2>1. /\ w \in 0 .. d /\ a \in 0 .. Slack(q) /\ Slack(q) = d * p
        /\ d \in Nat \ {0} /\ p \in Nat /\ Slack(q) \in Nat
        /\ w = 0 \/ (w - 1) * p + p <= a
        /\ ~ (w < d)
    BY <1>1, ConstantsOK DEF Inv, QueueOK, Backlog, Dropped, Arrives, Room, Slack
  <2> HIDE DEF w, p, a, d
  <2>2. w = d /\ w # 0
    BY <2>1
  <2>3. ((w - 1) + 1) * p = (w - 1) * p + p /\ (w - 1) + 1 = w
    BY <2>1, OneMore
  <2>4. d * p <= a
    BY <2>1, <2>2, <2>3
  <2>5. a = Slack(q)
    BY <2>1, <2>4
  <2> QED
    BY <2>5 DEF a
<1>2. Inv /\ [Next]_vars => [\A q \in Queue : Dropped(q) => age[q] = Slack(q)]_vars
  BY <1>1
<1> QED
  BY InitInv, NextInv, <1>2, PTL DEF Spec, SlackHolds

=============================================================================
