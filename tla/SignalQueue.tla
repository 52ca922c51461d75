----------------------------- MODULE SignalQueue -----------------------------
(***************************************************************************)
(* The single-producer / single-consumer ring buffer of                    *)
(* include/roscco/signal_queue.hpp, one action per memory access.          *)
(*                                                                         *)
(* The producer is an OSCC report handler (enqueue() in oscc_to_ros.cpp    *)
(* calls push()), the consumer is the drain timer (pop()).  They may       *)
(* interleave at every access: the handler may interrupt the drain thread  *)
(* or run in another thread.                                               *)
(*                                                                         *)
(* head_ and tail_ are std::atomic, so a load may return a store that is   *)
(* no longer the newest.  Each is kept as its modification order: the      *)
(* sequence of its stores.  A load returns any store from the last one     *)
(* that thread has seen on (read coherence).  A store carries how many     *)
(* slot accesses of the storing thread it releases, and an acquire load    *)
(* that reads it learns of them; a slot access is free of a data race only *)
(* if it was learnt of in this way.                                        *)
(***************************************************************************)
EXTENDS Integers, Sequences

CONSTANTS
  N,         \* slots of the array, one of which stays empty
  Sample,    \* the stamped reports a handler may push
  Blank,     \* what a value-initialised slot or local holds
  MaxPushes  \* bound: calls of push() in a behaviour

\* signal_queue.hpp:43, static_assert(N >= 2).
ASSUME QueueAssumption ==
  /\ N \in Nat \ {0, 1}
  /\ Sample # {} /\ Blank \notin Sample
  /\ MaxPushes \in Nat

VARIABLES
  buffer,    \* buffer_: the slots
  head,      \* modification order of head_, written by the producer
  tail,      \* modification order of tail_, written by the consumer
  ppc,       \* where push() is
  value,     \* push(): its argument
  pHead,     \* push(): local head
  pPos,      \* position in tail of the last store the producer has read
  pSees,     \* slot reads of the consumer that happen before the producer
  cpc,       \* where pop() is
  out,       \* pop(): its result
  cTail,     \* pop(): local tail
  cPos,      \* position in head of the last store the consumer has read
  cSees,     \* slot writes of the producer that happen before the consumer
  accepted,  \* history: the samples for which push() returned true
  delivered, \* history: the samples pop() returned
  dropped    \* dropped_: pushes that found the queue full

producerVars == << ppc, value, pHead, pPos, pSees, head, accepted, dropped >>
consumerVars == << cpc, out, cTail, cPos, cSees, tail, delivered >>
vars == << buffer, producerVars, consumerVars >>

Index == 0 .. N - 1
Store == [index : Index, carries : Nat]

(***************************************************************************)
(* Mutants: each stands for a plausible bug in the definition below it     *)
(* whose place it can take.                                                *)
(***************************************************************************)
NextIndexNoWrap(i) == i + 1
IsFullNever(next, seenTail) == FALSE
IsEmptyNever(t, seenHead) == FALSE
IsEmptyEarly(t, seenHead) == t = seenHead \/ (t + 1) % N = seenHead
PushPublishRelaxed ==
  /\ ppc = "publish"
  /\ head' = Append(head, [index |-> (pHead + 1) % N, carries |-> 0])
  /\ accepted' = Append(accepted, value)
  /\ ppc' = "idle"
  /\ UNCHANGED << buffer, value, pHead, pPos, pSees, dropped, consumerVars >>

-----------------------------------------------------------------------------
(* The code. *)

NextIndex(i) == (i + 1) % N
IsFull(next, seenTail) == next = seenTail
IsEmpty(t, seenHead) == t = seenHead

Newest(order) == order[Len(order)]
Later(seen, carried) == IF carried > seen THEN carried ELSE seen

Init ==
  /\ buffer = [i \in Index |-> Blank]
  /\ head = << [index |-> 0, carries |-> 0] >>
  /\ tail = << [index |-> 0, carries |-> 0] >>
  /\ ppc = "idle" /\ value = Blank /\ pHead = 0 /\ pPos = 1 /\ pSees = 0
  /\ cpc = "idle" /\ out = Blank /\ cTail = 0 /\ cPos = 1 /\ cSees = 0
  /\ accepted = << >> /\ delivered = << >> /\ dropped = 0

\* enqueue() stamps the report and push() loads head_: relaxed, and the
\* producer, its only writer, reads its own last store.
PushLoadHead(v) ==
  /\ ppc = "idle"
  /\ Len(accepted) + dropped < MaxPushes
  /\ value' = v
  /\ pHead' = Newest(head).index
  /\ ppc' = "check"
  /\ UNCHANGED << buffer, pPos, pSees, head, accepted, dropped, consumerVars >>

\* The acquire load of tail_ in push(), reading its i-th store.
ProducerReads(i) ==
  /\ ppc = "check"
  /\ i \in pPos .. Len(tail)
  /\ pPos' = i
  /\ pSees' = Later(pSees, tail[i].carries)

\* push() returns false, and enqueue() counts the drop.
PushFull(i) ==
  /\ ProducerReads(i)
  /\ IsFull(NextIndex(pHead), tail[i].index)
  /\ dropped' = dropped + 1
  /\ ppc' = "idle"
  /\ UNCHANGED << buffer, value, pHead, head, accepted, consumerVars >>

PushRoom(i) ==
  /\ ProducerReads(i)
  /\ ~ IsFull(NextIndex(pHead), tail[i].index)
  /\ ppc' = "write"
  /\ UNCHANGED << buffer, value, pHead, head, accepted, dropped, consumerVars >>

PushWrite ==
  /\ ppc = "write"
  /\ buffer' = [buffer EXCEPT ![pHead] = value]
  /\ ppc' = "publish"
  /\ UNCHANGED << value, pHead, pPos, pSees, head, accepted, dropped, consumerVars >>

\* The release store of head_; push() returns true.
PushPublish ==
  /\ ppc = "publish"
  /\ head' = Append(head, [index |-> NextIndex(pHead), carries |-> Len(accepted) + 1])
  /\ accepted' = Append(accepted, value)
  /\ ppc' = "idle"
  /\ UNCHANGED << buffer, value, pHead, pPos, pSees, dropped, consumerVars >>

\* pop() loads tail_ (its own last store) and then head_ (acquire).
ConsumerReads(i) ==
  /\ cpc = "idle"
  /\ i \in cPos .. Len(head)
  /\ cTail' = Newest(tail).index
  /\ cPos' = i
  /\ cSees' = Later(cSees, head[i].carries)

PopEmpty(i) ==
  /\ ConsumerReads(i)
  /\ IsEmpty(Newest(tail).index, head[i].index)
  /\ UNCHANGED << buffer, cpc, out, tail, delivered, producerVars >>

PopFound(i) ==
  /\ ConsumerReads(i)
  /\ ~ IsEmpty(Newest(tail).index, head[i].index)
  /\ cpc' = "read"
  /\ UNCHANGED << buffer, out, tail, delivered, producerVars >>

PopRead ==
  /\ cpc = "read"
  /\ out' = buffer[cTail]
  /\ cpc' = "release"
  /\ UNCHANGED << buffer, cTail, cPos, cSees, tail, delivered, producerVars >>

\* The release store of tail_; pop() returns true and drain() publishes out.
PopRelease ==
  /\ cpc = "release"
  /\ tail' = Append(tail, [index |-> NextIndex(cTail), carries |-> Len(delivered) + 1])
  /\ delivered' = Append(delivered, out)
  /\ cpc' = "idle"
  /\ UNCHANGED << buffer, out, cTail, cPos, cSees, producerVars >>

Push ==
  \/ \E v \in Sample : PushLoadHead(v)
  \/ \E i \in 1 .. Len(tail) : PushFull(i) \/ PushRoom(i)
  \/ PushWrite
  \/ PushPublish

Pop ==
  \/ \E i \in 1 .. Len(head) : PopEmpty(i) \/ PopFound(i)
  \/ PopRead
  \/ PopRelease

Next == Push \/ Pop

Spec == Init /\ [][Next]_vars

(***************************************************************************)
(* The drain timer keeps calling pop(), a pop() that found a sample runs   *)
(* to its end, and a store of head_ becomes visible to the consumer in     *)
(* finite time.  Nothing is assumed of the producer.                       *)
(***************************************************************************)
Fairness ==
  /\ WF_vars(PopFound(Len(head)))
  /\ WF_vars(PopRead)
  /\ WF_vars(PopRelease)

FairSpec == Spec /\ Fairness

-----------------------------------------------------------------------------
(* Properties. *)

\* Types of the variables; in particular no index ever leaves the array.
TypeOK ==
  /\ buffer \in [Index -> Sample \cup {Blank}]
  /\ head \in Seq(Store) /\ head # << >>
  /\ tail \in Seq(Store) /\ tail # << >>
  /\ ppc \in {"idle", "check", "write", "publish"}
  /\ cpc \in {"idle", "read", "release"}
  /\ value \in Sample \cup {Blank} /\ out \in Sample \cup {Blank}
  /\ pHead \in Index /\ cTail \in Index
  /\ pPos \in 1 .. Len(tail) /\ cPos \in 1 .. Len(head)
  /\ pSees \in Nat /\ cSees \in Nat
  /\ accepted \in Seq(Sample)
  /\ delivered \in Seq(Sample \cup {Blank})
  /\ dropped \in Nat

\* No data race on a slot (signal_queue.hpp:56 against :70): push() writes
\* sample k = Len(accepted) + 1 only when the read of the slot's previous
\* sample, k - N, happens before the write, and pop() reads a sample only
\* when its write happens before the read.
NoSlotRace ==
  /\ ppc = "write" => Len(accepted) + 1 - N <= pSees
  /\ cpc = "read" => Len(delivered) + 1 <= cSees

\* The handler's reports come out unchanged, each once and in the order they
\* went in, however often the ring has wrapped.
FifoIntegrity ==
  /\ Len(delivered) <= Len(accepted)
  /\ \A i \in 1 .. Len(delivered) : delivered[i] = accepted[i]

\* Both modification orders walk round the ring one slot at a time, and each
\* store releases exactly the slot accesses made before it.
StoresInStep ==
  /\ Len(head) = Len(accepted) + 1
  /\ Len(tail) = Len(delivered) + 1
  /\ \A i \in 1 .. Len(head) : head[i] = [index |-> (i - 1) % N, carries |-> i - 1]
  /\ \A i \in 1 .. Len(tail) : tail[i] = [index |-> (i - 1) % N, carries |-> i - 1]
  /\ ppc # "idle" => pHead = Len(accepted) % N
  /\ cpc # "idle" => cTail = Len(delivered) % N

\* What each side knows of the other lags behind, but never by so much that
\* the producer could catch up with the consumer from behind.
ViewsSafe ==
  /\ pSees = pPos - 1
  /\ cSees = cPos - 1
  /\ Len(delivered) <= cSees
  /\ cpc # "idle" => Len(delivered) < cSees
  /\ Len(accepted) - pSees <= N - 1
  /\ ppc \in {"write", "publish"} => Len(accepted) - pSees <= N - 2

\* Each accepted and not yet delivered sample lies in its own slot.
SlotsHoldWaiting ==
  /\ \A k \in Len(delivered) + 1 .. Len(accepted) : buffer[(k - 1) % N] = accepted[k]
  /\ ppc # "idle" => value \in Sample
  /\ ppc = "publish" => buffer[pHead] = value
  /\ cpc = "release" => out = accepted[Len(delivered) + 1]

\* The ring at every instant, between any two accesses of either side: the
\* inductive invariant behind the properties above.
RingInvariant == StoresInStep /\ ViewsSafe /\ SlotsHoldWaiting /\ FifoIntegrity

\* The ring implements the bounded FIFO with one slot less than the array:
\* the comment "Depth 64" (oscc_to_ros.hpp:74) buys 63 waiting reports.
Fifo == INSTANCE SampleFifo WITH Capacity <- N - 1
ImplementsFifo == Fifo!Spec

\* Every accepted report is eventually handed to the drain, even with loads
\* that lag behind the stores.
EveryAcceptedDelivered ==
  \A k \in 1 .. MaxPushes : Len(accepted) >= k ~> Len(delivered) >= k

=============================================================================
