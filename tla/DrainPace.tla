------------------------------ MODULE DrainPace ------------------------------
(***************************************************************************)
(* The pace of drain() against OSCC's (src/oscc_to_ros.cpp): each queue is *)
(* emptied by a loop that ends only when pop() fails, while the handlers   *)
(* go on refilling it, for ever.                                           *)
(*                                                                         *)
(* OsccToRos has what drain() does with a report, and a bounded number of  *)
(* them; here a queue is only how many reports wait in it, but time has a  *)
(* unit.  Reports of one kind are at least ReportPeriod apart, as the      *)
(* "50 Hz per module" of oscc_to_ros.hpp:41 says; a step of drain() takes  *)
(* at most Cost; and the executor may leave the timer waiting for as long  *)
(* as it likes.  The nanoseconds in which a store to an index becomes      *)
(* visible (SignalQueue) are no time at this scale.                        *)
(***************************************************************************)
EXTENDS Integers, Sequences

CONSTANTS
  Order,         \* the queues, in the order drain() takes them
  Depth,         \* the slots N of each queue
  ReportPeriod,  \* the least time between two reports of a kind
  Cost           \* the most that a step of drain() takes: pop(), publish()

Queue == {Order[i] : i \in 1 .. Len(Order)}

ASSUME PaceAssumption ==
  /\ Order \in Seq(STRING) /\ Order # << >>
  /\ \A q \in Queue : Depth[q] \in Nat \ {0, 1} /\ ReportPeriod[q] \in Nat
  /\ Cost \in Nat /\ \A q \in Queue : Cost < ReportPeriod[q]

VARIABLES
  waiting,  \* per queue: the reports in it
  since,    \* per queue: the time since its last report, up to ReportPeriod
  age,      \* per queue: the time since drain() last found it empty, up to Slack
  at,       \* where drain() is: the place in Order of the queue it empties
  spent     \* the time since the last step of drain(), while it runs

vars == << waiting, since, age, at, spent >>

\* at, outside the queues: drain() has not been called, or has come past them.
Idle == 0
Rest == Len(Order) + 1

\* A queue that starts empty takes this long to overflow.
Slack(q) == (Depth[q] - 1) * ReportPeriod[q]

Least(a, b) == IF a <= b THEN a ELSE b

\* Mutants: a ring with a slot too many or too few, and a drain() that goes
\* over its queues again until all are empty at once.
RoomWholeArray(q) == waiting[q] < Depth[q]
RoomOneLess(q) == waiting[q] < Depth[q] - 2
AfterAllEmpty(i) ==
  IF i = Len(Order) /\ \E q \in Queue : waiting[q] > 0 THEN 1 ELSE i + 1

-----------------------------------------------------------------------------
(* The code. *)

Room(q) == waiting[q] < Depth[q] - 1
After(i) == i + 1

Init ==
  /\ waiting = [q \in Queue |-> 0]
  /\ since = [q \in Queue |-> ReportPeriod[q]]
  /\ age = [q \in Queue |-> 0]
  /\ at = Idle /\ spent = 0

\* A report handler: enqueue() pushes the report, or counts it as dropped.
Arrives(q) ==
  /\ since[q] = ReportPeriod[q]
  /\ since' = [since EXCEPT ![q] = 0]
  /\ UNCHANGED << age, at, spent >>

Accepted(q) == Arrives(q) /\ Room(q) /\ waiting' = [waiting EXCEPT ![q] = @ + 1]
Dropped(q) == Arrives(q) /\ ~ Room(q) /\ UNCHANGED waiting

\* The drain timer fires.
Start ==
  /\ at = Idle
  /\ at' = 1 /\ spent' = 0
  /\ UNCHANGED << waiting, since, age >>

\* A pop() that succeeds, and the publish() after it.
Pop ==
  /\ at \in 1 .. Len(Order) /\ waiting[Order[at]] > 0
  /\ waiting' = [waiting EXCEPT ![Order[at]] = @ - 1]
  /\ spent' = 0
  /\ UNCHANGED << since, age, at >>

\* A pop() that fails, and ends the loop of its queue.
FindsEmpty ==
  /\ at \in 1 .. Len(Order) /\ waiting[Order[at]] = 0
  /\ age' = [age EXCEPT ![Order[at]] = 0]
  /\ at' = After(at) /\ spent' = 0
  /\ UNCHANGED << waiting, since >>

\* checkStaleness(), and the warning of dropped reports (OsccToRos).
Finish ==
  /\ at = Rest
  /\ at' = Idle /\ spent' = 0
  /\ UNCHANGED << waiting, since, age >>

\* Time passes: while drain() runs, no more than Cost between its steps.
Tick ==
  /\ IF at = Idle THEN spent' = spent ELSE spent < Cost /\ spent' = spent + 1
  /\ since' = [q \in Queue |-> Least(since[q] + 1, ReportPeriod[q])]
  /\ age' = [q \in Queue |-> Least(age[q] + 1, Slack(q))]
  /\ UNCHANGED << waiting, at >>

Handler == \E q \in Queue : Accepted(q) \/ Dropped(q)
Drain == Start \/ Pop \/ FindsEmpty \/ Finish

Next == Handler \/ Drain \/ Tick

Spec == Init /\ [][Next]_vars

(***************************************************************************)
(* drain() does not block, and the executor spins.  Nothing is assumed of  *)
(* OSCC beyond its pace: it may report for ever or fall silent.            *)
(***************************************************************************)
FairSpec == Spec /\ WF_vars(Drain)

-----------------------------------------------------------------------------
(* Properties. *)

\* Types of the variables, with the usable capacity of each ring.
TypeOK ==
  /\ \A q \in Queue : /\ waiting[q] \in 0 .. Depth[q] - 1
                      /\ since[q] \in 0 .. ReportPeriod[q]
                      /\ age[q] \in 0 .. Slack(q)
  /\ at \in Idle .. Rest
  /\ spent \in 0 .. Cost

\* drain() comes to an end, and so to checkStaleness(), the drop warning and
\* the node's other callbacks, although the handlers never stop refilling the
\* queues it empties: it is enough that one step of it is faster than one kind
\* of report.
DrainReturns == at # Idle ~> at = Idle

\* "over a second of slack" (oscc_to_ros.hpp:74): a report is dropped only if
\* drain() has not found its queue empty for Depth - 1 report periods, which is
\* 1.26 s for 64 slots at 50 Hz, whatever the drain emptied in between.
SlackHolds ==
  [][\A q \in Queue : Dropped(q) => age[q] = Slack(q)]_vars

=============================================================================
