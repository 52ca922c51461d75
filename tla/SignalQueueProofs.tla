-------------------------- MODULE SignalQueueProofs --------------------------
(***************************************************************************)
(* Proofs about SignalQueue for every number of slots, every set of        *)
(* samples and every number of pushes.                                     *)
(***************************************************************************)
EXTENDS SignalQueue, SequenceTheorems, TLAPS

-----------------------------------------------------------------------------
(* The arithmetic of a ring of n slots: what (i + 1) % n, the index update *)
(* of signal_queue.hpp:50 and :71, does to a running count taken modulo n. *)

\* A remainder is an index of the array.
LEMMA ModRange ==
  ASSUME NEW n \in Nat \ {0}, NEW k \in Nat
  PROVE  k % n \in 0 .. n - 1
OBVIOUS

\* Quotient and remainder make up the number.
LEMMA DivMod ==
  ASSUME NEW n \in Nat \ {0}, NEW k \in Nat
  PROVE  k = n * (k \div n) + (k % n) /\ (k \div n) \in Int
OBVIOUS

LEMMA MultipleNotSmaller ==
  ASSUME NEW n \in Nat \ {0}, NEW d \in Int, d >= 1
  PROVE  n * d >= n
OBVIOUS

\* There is one way only to write a number as a multiple of n plus an index.
LEMMA RemainderUnique ==
  ASSUME NEW n \in Nat \ {0}, NEW k \in Nat, NEW q \in Int, NEW r \in 0 .. n - 1,
         k = n * q + r
  PROVE  r = k % n
<1> DEFINE p == k \div n
           s == k % n
<1>1. k = n * p + s /\ p \in Int /\ s \in 0 .. n - 1
  BY DivMod, ModRange
<1> HIDE DEF p, s
<1>2. n * (q - p) = s - r /\ n * (p - q) = r - s
  BY <1>1
<1>3. ~ (q - p >= 1)
  BY <1>1, <1>2, MultipleNotSmaller
<1>4. ~ (p - q >= 1)
  BY <1>1, <1>2, MultipleNotSmaller
<1>5. q = p
  BY <1>1, <1>3, <1>4
<1>6. r = s
  BY <1>1, <1>2, <1>5
<1> QED
  BY <1>6 DEF s

\* Stepping the index is stepping the count.
LEMMA ModSuccessor ==
  ASSUME NEW n \in Nat \ {0, 1}, NEW k \in Nat
  PROVE  ((k % n) + 1) % n = (k + 1) % n
<1> DEFINE q == k \div n
           r == k % n
<1>1. k = n * q + r /\ q \in Int /\ r \in 0 .. n - 1
  BY DivMod, ModRange
<1> HIDE DEF q, r
<1>2. CASE r = n - 1
  <2>1. k + 1 = n * (q + 1) + 0
    BY <1>1, <1>2
  <2>2. 0 = (k + 1) % n
    BY <1>1, <2>1, RemainderUnique
  <2>3. r + 1 = n * 1 + 0
    BY <1>1, <1>2
  <2>4. 0 = (r + 1) % n
    BY <1>1, <2>3, RemainderUnique
  <2> QED
    BY <2>2, <2>4 DEF r
<1>3. CASE r # n - 1
  <2>1. k + 1 = n * q + (r + 1) /\ r + 1 \in 0 .. n - 1
    BY <1>1, <1>3
  <2>2. r + 1 = (k + 1) % n
    BY <1>1, <2>1, RemainderUnique
  <2>3. r + 1 = n * 0 + (r + 1)
    BY <1>1
  <2>4. r + 1 = (r + 1) % n
    BY <1>1, <2>1, <2>3, RemainderUnique
  <2> QED
    BY <2>2, <2>4 DEF r
<1> QED
  BY <1>2, <1>3

\* Two counts less than a lap apart never share a slot.
LEMMA ModDistinct ==
  ASSUME NEW n \in Nat \ {0}, NEW a \in Nat, NEW b \in Nat, a < b, b < a + n
  PROVE  a % n # b % n
<1> SUFFICES ASSUME a % n = b % n
             PROVE  FALSE
  OBVIOUS
<1> DEFINE q == a \div n
           p == b \div n
           r == a % n
<1>1. a = n * q + r /\ q \in Int /\ r \in 0 .. n - 1
  BY DivMod, ModRange
<1>2. b = n * p + r /\ p \in Int
  BY DivMod, ModRange
<1> HIDE DEF q, p, r
<1>3. n * (p - q) = b - a
  BY <1>1, <1>2
<1>4. CASE p - q >= 1
  BY <1>1, <1>2, <1>3, <1>4, MultipleNotSmaller
<1>5. CASE p - q = 0
  BY <1>1, <1>2, <1>3, <1>5
<1>6. CASE q - p >= 1
  <2>1. n * (q - p) >= n
    BY <1>1, <1>2, <1>6, MultipleNotSmaller
  <2> QED
    BY <1>1, <1>2, <1>3, <2>1
<1> QED
  BY <1>1, <1>2, <1>4, <1>5, <1>6

\* A full lap comes back to the same slot.
LEMMA ModLap ==
  ASSUME NEW n \in Nat \ {0}, NEW k \in Nat
  PROVE  (k + n) % n = k % n
<1> DEFINE q == k \div n
           r == k % n
<1>1. k = n * q + r /\ q \in Int /\ r \in 0 .. n - 1
  BY DivMod, ModRange
<1> HIDE DEF q, r
<1>2. k + n = n * (q + 1) + r
  BY <1>1
<1>3. r = (k + n) % n
  BY <1>1, <1>2, RemainderUnique
<1> QED
  BY <1>3 DEF r

-----------------------------------------------------------------------------
(* The ring. *)

Inv == TypeOK /\ RingInvariant

\* What appending one element does to a sequence, in the form used below.
LEMMA AppendFacts ==
  ASSUME NEW S, NEW s \in Seq(S), NEW e \in S
  PROVE  /\ Append(s, e) \in Seq(S)
         /\ Append(s, e) # << >>
         /\ Len(s) \in Nat
         /\ Len(Append(s, e)) = Len(s) + 1
         /\ \A i \in 1 .. Len(s) : Append(s, e)[i] = s[i]
         /\ Append(s, e)[Len(s) + 1] = e
BY AppendProperties

\* A lag shrinks when what it is measured from moves on.
LEMMA LagShrinks ==
  ASSUME NEW a \in Int, NEW b \in Int, NEW c \in Int, NEW n \in Int, a - b <= n, c >= b
  PROVE  a - c <= n
OBVIOUS

LEMMA InitInv == Init => Inv
<1> SUFFICES ASSUME Init
             PROVE  Inv
  OBVIOUS
<1> USE QueueAssumption DEF Init
<1>1. TypeOK
  <2>1. 0 \in Index /\ [index |-> 0, carries |-> 0] \in Store
    BY DEF Index, Store
  <2>2. /\ head \in Seq(Store) /\ head # << >> /\ Len(head) = 1
        /\ tail \in Seq(Store) /\ tail # << >> /\ Len(tail) = 1
    BY <2>1
  <2>3. accepted \in Seq(Sample) /\ delivered \in Seq(Sample \cup {Blank})
    OBVIOUS
  <2>4. buffer \in [Index -> Sample \cup {Blank}]
    OBVIOUS
  <2> QED
    BY <2>1, <2>2, <2>3, <2>4 DEF TypeOK
<1>2. 0 % N = 0
  <2>1. 0 = N * 0 + 0
    BY QueueAssumption
  <2> QED
    BY <2>1, RemainderUnique
<1>3. StoresInStep
  <2>1. /\ Len(head) = 1 /\ Len(tail) = 1 /\ Len(accepted) = 0 /\ Len(delivered) = 0
        /\ ppc = "idle" /\ cpc = "idle"
    OBVIOUS
  <2>2. head[1] = [index |-> 0, carries |-> 0] /\ tail[1] = [index |-> 0, carries |-> 0]
    OBVIOUS
  <2> HIDE DEF Init
  <2>3. \A i \in 1 .. 1 : i = 1 /\ i - 1 = 0
    OBVIOUS
  <2>4. \A i \in 1 .. Len(head) : head[i] = [index |-> (i - 1) % N, carries |-> i - 1]
    BY <1>2, <2>1, <2>2, <2>3
  <2>5. \A i \in 1 .. Len(tail) : tail[i] = [index |-> (i - 1) % N, carries |-> i - 1]
    BY <1>2, <2>1, <2>2, <2>3
  <2> QED
    BY <2>1, <2>4, <2>5 DEF StoresInStep
<1>4. ViewsSafe
  BY DEF ViewsSafe
<1>5. SlotsHoldWaiting
  BY DEF SlotsHoldWaiting
<1>6. FifoIntegrity
  BY DEF FifoIntegrity
<1> QED
  BY <1>1, <1>3, <1>4, <1>5, <1>6 DEF Inv, RingInvariant

\* The consequences of Inv that the steps of the proof share.
LEMMA InvFacts ==
  ASSUME Inv
  PROVE  /\ N \in Nat /\ N >= 2
         /\ Len(accepted) \in Nat /\ Len(delivered) \in Nat
         /\ Len(head) = Len(accepted) + 1 /\ Len(tail) = Len(delivered) + 1
         /\ pSees \in 0 .. Len(delivered) /\ cSees \in 0 .. Len(accepted)
<1> USE QueueAssumption
<1>1. /\ Len(accepted) \in Nat /\ Len(delivered) \in Nat
      /\ Len(head) = Len(accepted) + 1 /\ Len(tail) = Len(delivered) + 1
  BY DEF Inv, TypeOK, RingInvariant, StoresInStep
<1>2. pSees \in 0 .. Len(delivered) /\ cSees \in 0 .. Len(accepted)
  BY <1>1 DEF Inv, TypeOK, RingInvariant, ViewsSafe
<1> QED
  BY <1>1, <1>2

\* Where the two indices stand.
LEMMA InvPlaces ==
  ASSUME Inv
  PROVE  /\ Newest(head).index = Len(accepted) % N
         /\ Newest(tail).index = Len(delivered) % N
         /\ Len(accepted) % N \in Index /\ Len(delivered) % N \in Index
<1>1. /\ Newest(head).index = Len(accepted) % N
      /\ Newest(tail).index = Len(delivered) % N
  BY InvFacts DEF Inv, RingInvariant, StoresInStep, Newest
<1>2. Len(accepted) % N \in Index /\ Len(delivered) % N \in Index
  BY InvFacts, ModRange, QueueAssumption DEF Index
<1> QED
  BY <1>1, <1>2

LEMMA PushLoadHeadInv ==
  ASSUME Inv, NEW v \in Sample, PushLoadHead(v)
  PROVE  Inv'
<1> USE DEF PushLoadHead, consumerVars, Inv
<1>1. TypeOK'
  BY InvPlaces DEF TypeOK
<1>2. StoresInStep'
  BY InvPlaces DEF RingInvariant, StoresInStep
<1>3. ViewsSafe'
  BY DEF RingInvariant, ViewsSafe
<1>4. SlotsHoldWaiting'
  BY DEF RingInvariant, SlotsHoldWaiting
<1>5. FifoIntegrity'
  BY DEF RingInvariant, FifoIntegrity
<1> QED
  BY <1>1, <1>2, <1>3, <1>4, <1>5 DEF RingInvariant

\* What the producer learns from a load of tail_.
LEMMA ProducerReadsFacts ==
  ASSUME Inv, NEW i, ProducerReads(i)
  PROVE  /\ i \in 1 .. Len(tail)
         /\ pPos' = i /\ pSees' = i - 1
         /\ pSees' >= pSees /\ pSees' <= Len(delivered)
<1>1. i \in 1 .. Len(tail) /\ i >= pPos
  BY DEF Inv, TypeOK, ProducerReads
<1>2. tail[i].carries = i - 1
  BY <1>1 DEF Inv, RingInvariant, StoresInStep
<1>3. pPos' = i /\ pSees = pPos - 1 /\ pPos \in Nat
  BY DEF Inv, TypeOK, RingInvariant, ViewsSafe, ProducerReads
<1>4. pSees' = i - 1 /\ pSees' >= pSees
  BY <1>1, <1>2, <1>3 DEF ProducerReads, Later
<1> QED
  BY <1>1, <1>3, <1>4, InvFacts

LEMMA ProducerReadsPlace ==
  ASSUME Inv, NEW i, ProducerReads(i)
  PROVE  tail[i].index = (i - 1) % N
BY ProducerReadsFacts DEF Inv, RingInvariant, StoresInStep

LEMMA PushFullInv ==
  ASSUME Inv, NEW i, PushFull(i)
  PROVE  Inv'
<1> USE DEF PushFull, consumerVars, Inv
<1>0. ProducerReads(i)
  OBVIOUS
<1>1. TypeOK'
  BY <1>0, ProducerReadsFacts DEF TypeOK
<1>2. StoresInStep'
  BY DEF RingInvariant, StoresInStep
<1>3. ViewsSafe'
  <2>1. Len(accepted) - pSees <= N - 1 /\ ppc = "check"
    BY <1>0 DEF RingInvariant, ViewsSafe, ProducerReads
  <2>2. pSees' = pPos' - 1
    BY <1>0, ProducerReadsFacts
  <2>3. /\ Len(accepted) \in Int /\ N - 1 \in Int /\ pSees \in Int /\ pSees' \in Int
        /\ pSees' >= pSees
    <3> HIDE DEF PushFull, Inv
    <3> QED
      BY <1>0, ProducerReadsFacts, InvFacts
  <2>4. Len(accepted) - pSees' <= N - 1
    BY <2>1, <2>3, LagShrinks
  <2> QED
    BY <2>1, <2>2, <2>4 DEF RingInvariant, ViewsSafe
<1>4. SlotsHoldWaiting'
  BY DEF RingInvariant, SlotsHoldWaiting
<1>5. FifoIntegrity'
  BY DEF RingInvariant, FifoIntegrity
<1> QED
  BY <1>1, <1>2, <1>3, <1>4, <1>5 DEF RingInvariant

\* The full test is exact: when it lets the producer through, at most N - 2
\* of the samples the producer has to count as unread are in the ring.
LEMMA RoomFound ==
  ASSUME Inv, NEW i, PushRoom(i)
  PROVE  Len(accepted) - pSees' <= N - 2
<1>0. ProducerReads(i) /\ ppc = "check"
  BY DEF PushRoom, ProducerReads
<1> DEFINE k == Len(accepted)
<1>1. k \in Nat /\ i \in Nat /\ i >= 1 /\ pSees' = i - 1
  BY <1>0, ProducerReadsFacts, InvFacts
<1>2. k - (i - 1) <= N - 1
  <2>1. k - pSees <= N - 1
    BY DEF Inv, RingInvariant, ViewsSafe
  <2>2. N - 1 \in Int /\ pSees \in Int /\ i - 1 \in Int /\ i - 1 >= pSees
    BY <1>0, <1>1, ProducerReadsFacts, InvFacts
  <2> HIDE DEF k
  <2> QED
    BY <1>1, <2>1, <2>2, LagShrinks
<1>3. (k + 1) % N # (i - 1) % N
  <2>1. pHead = k % N
    BY <1>0 DEF Inv, RingInvariant, StoresInStep
  <2>2. NextIndex(pHead) = (k + 1) % N
    BY <1>1, <2>1, ModSuccessor, QueueAssumption DEF NextIndex
  <2> QED
    BY <1>0, <2>2, ProducerReadsPlace DEF PushRoom, IsFull
<1>4. k - (i - 1) # N - 1
  <2> SUFFICES ASSUME k - (i - 1) = N - 1
               PROVE  FALSE
    OBVIOUS
  <2>1. N \in Nat /\ N # 0
    BY QueueAssumption
  <2>2. k + 1 = (i - 1) + N /\ i - 1 \in Nat
    BY <1>1, <2>1
  <2> QED
    BY <1>3, <2>1, <2>2, ModLap
<1> QED
  BY <1>1, <1>2, <1>4, InvFacts

LEMMA PushRoomInv ==
  ASSUME Inv, NEW i, PushRoom(i)
  PROVE  Inv'
<1> USE DEF PushRoom, consumerVars, Inv
<1>0. ProducerReads(i) /\ ppc = "check"
  BY DEF ProducerReads
<1>1. TypeOK'
  BY <1>0, ProducerReadsFacts DEF TypeOK
<1>2. StoresInStep'
  BY <1>0 DEF RingInvariant, StoresInStep
<1>3. ViewsSafe'
  <2>1. Len(accepted) - pSees' <= N - 2
    BY RoomFound
  <2>2. pSees' = pPos' - 1 /\ Len(accepted) - pSees' <= N - 1
    BY <1>0, <2>1, ProducerReadsFacts, InvFacts
  <2> QED
    BY <1>0, <2>1, <2>2 DEF RingInvariant, ViewsSafe
<1>4. SlotsHoldWaiting'
  BY <1>0 DEF RingInvariant, SlotsHoldWaiting
<1>5. FifoIntegrity'
  BY DEF RingInvariant, FifoIntegrity
<1> QED
  BY <1>1, <1>2, <1>3, <1>4, <1>5 DEF RingInvariant

\* The write goes to a slot that holds no waiting sample.
LEMMA PushWriteInv ==
  ASSUME Inv, PushWrite
  PROVE  Inv'
<1> USE DEF PushWrite, consumerVars, Inv
<1>1. TypeOK'
  BY DEF TypeOK, RingInvariant, SlotsHoldWaiting
<1>2. StoresInStep'
  BY DEF RingInvariant, StoresInStep
<1>3. ViewsSafe'
  BY DEF RingInvariant, ViewsSafe
<1>4. SlotsHoldWaiting'
  <2>1. pHead = Len(accepted) % N /\ pHead \in Index /\ value \in Sample
    BY DEF TypeOK, RingInvariant, StoresInStep, SlotsHoldWaiting
  <2>2. ASSUME NEW k \in Len(delivered) + 1 .. Len(accepted)
        PROVE  /\ (k - 1) % N \in Index
               /\ (k - 1) % N # pHead
    <3>1. k - 1 \in Nat /\ k - 1 < Len(accepted) /\ Len(accepted) < (k - 1) + N
      <4>1. Len(accepted) - pSees <= N - 2
        BY DEF RingInvariant, ViewsSafe
      <4> QED
        BY <4>1, InvFacts
    <3> QED
      BY <2>1, <3>1, InvFacts, ModDistinct, ModRange, QueueAssumption DEF Index
  <2>3. \A k \in Len(delivered) + 1 .. Len(accepted) : buffer'[(k - 1) % N] = accepted[k]
    BY <2>2 DEF TypeOK, RingInvariant, SlotsHoldWaiting
  <2>4. buffer'[pHead] = value
    BY <2>1 DEF TypeOK
  <2> QED
    BY <2>1, <2>3, <2>4 DEF RingInvariant, SlotsHoldWaiting
<1>5. FifoIntegrity'
  BY DEF RingInvariant, FifoIntegrity
<1> QED
  BY <1>1, <1>2, <1>3, <1>4, <1>5 DEF RingInvariant

LEMMA PushPublishInv ==
  ASSUME Inv, PushPublish
  PROVE  Inv'
<1> USE DEF PushPublish, consumerVars, Inv
<1> DEFINE k == Len(accepted)
           store == [index |-> NextIndex(pHead), carries |-> k + 1]
<1>1. /\ k \in Nat /\ k + 1 \in Nat
      /\ pHead = k % N /\ value \in Sample /\ buffer[pHead] = value
  BY InvFacts DEF RingInvariant, StoresInStep, SlotsHoldWaiting
<1>2. store = [index |-> (k + 1) % N, carries |-> k + 1] /\ store \in Store
  BY <1>1, ModSuccessor, ModRange, QueueAssumption DEF NextIndex, Store, Index
<1>3. /\ head' \in Seq(Store) /\ head' # << >>
      /\ Len(head') = Len(head) + 1
      /\ \A i \in 1 .. Len(head) : head'[i] = head[i]
      /\ head'[Len(head) + 1] = store
  BY <1>2, AppendFacts DEF TypeOK
<1>4. /\ accepted' \in Seq(Sample)
      /\ Len(accepted') = k + 1
      /\ \A i \in 1 .. k : accepted'[i] = accepted[i]
      /\ accepted'[k + 1] = value
  BY <1>1, AppendFacts DEF TypeOK
<1> HIDE DEF store
<1>5. TypeOK'
  <2>1. cPos \in 1 .. Len(head')
    BY <1>3, InvFacts DEF TypeOK
  <2> QED
    BY <1>3, <1>4, <2>1 DEF TypeOK
<1>6. StoresInStep'
  <2>1. Len(head') = Len(accepted') + 1
    BY <1>3, <1>4, InvFacts
  <2>2. \A i \in 1 .. Len(head') : head'[i] = [index |-> (i - 1) % N, carries |-> i - 1]
    <3> SUFFICES ASSUME NEW i \in 1 .. Len(head')
                 PROVE  head'[i] = [index |-> (i - 1) % N, carries |-> i - 1]
      OBVIOUS
    <3>1. CASE i \in 1 .. Len(head)
      BY <1>3, <3>1 DEF RingInvariant, StoresInStep
    <3>2. CASE i = Len(head) + 1
      <4>1. i - 1 = k + 1
        BY <1>1, <3>2, InvFacts
      <4> QED
        BY <1>2, <1>3, <3>2, <4>1
    <3> QED
      BY <1>3, <3>1, <3>2, InvFacts
  <2> QED
    BY <2>1, <2>2 DEF RingInvariant, StoresInStep
<1>7. ViewsSafe'
  BY <1>3, <1>4, InvFacts DEF RingInvariant, ViewsSafe, TypeOK
<1>8. SlotsHoldWaiting'
  <2>1. ASSUME NEW j \in Len(delivered) + 1 .. k + 1
        PROVE  buffer[(j - 1) % N] = accepted'[j]
    <3>1. j \in Len(delivered) + 1 .. k \/ j = k + 1
      BY <1>1, InvFacts
    <3>2. CASE j \in Len(delivered) + 1 .. k
      <4>1. j \in 1 .. k
        BY <1>1, <3>2, InvFacts
      <4>2. buffer[(j - 1) % N] = accepted[j]
        BY <3>2 DEF RingInvariant, SlotsHoldWaiting
      <4> QED
        BY <1>4, <4>1, <4>2
    <3>3. CASE j = k + 1
      <4>1. j - 1 = k
        BY <1>1, <3>3
      <4> QED
        BY <1>1, <1>4, <3>3, <4>1
    <3> QED
      BY <3>1, <3>2, <3>3
  <2>2. ASSUME cpc = "release"
        PROVE  out = accepted'[Len(delivered) + 1]
    <3>1. Len(delivered) + 1 \in 1 .. k
      BY <2>2, InvFacts DEF RingInvariant, ViewsSafe
    <3> QED
      BY <1>4, <2>2, <3>1 DEF RingInvariant, SlotsHoldWaiting
  <2> QED
    BY <1>4, <2>1, <2>2 DEF RingInvariant, SlotsHoldWaiting
<1>9. FifoIntegrity'
  BY <1>1, <1>4, InvFacts DEF RingInvariant, FifoIntegrity
<1> QED
  BY <1>5, <1>6, <1>7, <1>8, <1>9 DEF RingInvariant

\* What the consumer learns from a load of head_.
LEMMA ConsumerReadsFacts ==
  ASSUME Inv, NEW i, ConsumerReads(i)
  PROVE  /\ i \in 1 .. Len(head)
         /\ cPos' = i /\ cSees' = i - 1
         /\ cSees' >= cSees /\ cSees' <= Len(accepted)
<1>1. i \in 1 .. Len(head) /\ i >= cPos
  BY DEF Inv, TypeOK, ConsumerReads
<1>2. head[i].carries = i - 1
  BY <1>1 DEF Inv, RingInvariant, StoresInStep
<1>3. cPos' = i /\ cSees = cPos - 1 /\ cPos \in Nat
  BY DEF Inv, TypeOK, RingInvariant, ViewsSafe, ConsumerReads
<1>4. cSees' = i - 1 /\ cSees' >= cSees
  BY <1>1, <1>2, <1>3 DEF ConsumerReads, Later
<1> QED
  BY <1>1, <1>3, <1>4, InvFacts

LEMMA ConsumerReadsPlace ==
  ASSUME Inv, NEW i, ConsumerReads(i)
  PROVE  /\ head[i].index = (i - 1) % N
         /\ cTail' = Len(delivered) % N /\ cTail' \in Index
<1>1. head[i].index = (i - 1) % N
  BY ConsumerReadsFacts DEF Inv, RingInvariant, StoresInStep
<1>2. cTail' = Len(delivered) % N /\ cTail' \in Index
  BY InvPlaces DEF ConsumerReads
<1> QED
  BY <1>1, <1>2

LEMMA PopEmptyInv ==
  ASSUME Inv, NEW i, PopEmpty(i)
  PROVE  Inv'
<1> USE DEF PopEmpty, producerVars, Inv
<1>0. ConsumerReads(i) /\ cpc = "idle"
  BY DEF ConsumerReads
<1>1. TypeOK'
  <2>1. cTail' \in Index
    BY <1>0, ConsumerReadsPlace
  <2>2. cPos' \in 1 .. Len(head) /\ cSees' \in Nat
    BY <1>0, ConsumerReadsFacts, InvFacts
  <2> QED
    BY <2>1, <2>2 DEF TypeOK
<1>2. StoresInStep'
  BY <1>0, ConsumerReadsPlace DEF RingInvariant, StoresInStep
<1>3. ViewsSafe'
  <2>1. Len(delivered) <= cSees
    BY DEF RingInvariant, ViewsSafe
  <2>2. cSees' = cPos' - 1 /\ Len(delivered) <= cSees'
    <3> HIDE DEF PopEmpty, Inv
    <3> QED
      BY <1>0, <2>1, ConsumerReadsFacts, InvFacts
  <2> QED
    BY <1>0, <2>2 DEF RingInvariant, ViewsSafe
<1>4. SlotsHoldWaiting'
  BY DEF RingInvariant, SlotsHoldWaiting
<1>5. FifoIntegrity'
  BY DEF RingInvariant, FifoIntegrity
<1> QED
  BY <1>1, <1>2, <1>3, <1>4, <1>5 DEF RingInvariant

LEMMA PopFoundInv ==
  ASSUME Inv, NEW i, PopFound(i)
  PROVE  Inv'
<1> USE DEF PopFound, producerVars, Inv
<1>0. ConsumerReads(i) /\ cpc = "idle"
  BY DEF ConsumerReads
<1>1. TypeOK'
  <2>1. cTail' \in Index
    BY <1>0, ConsumerReadsPlace
  <2>2. cPos' \in 1 .. Len(head) /\ cSees' \in Nat
    BY <1>0, ConsumerReadsFacts, InvFacts
  <2> QED
    BY <2>1, <2>2 DEF TypeOK
<1>2. StoresInStep'
  BY <1>0, ConsumerReadsPlace DEF RingInvariant, StoresInStep
<1>3. Len(delivered) < cSees'
  <2>1. Len(delivered) % N # (i - 1) % N
    BY <1>0, ConsumerReadsPlace, InvPlaces DEF IsEmpty
  <2>2. Len(delivered) # i - 1
    BY <2>1
  <2>3. Len(delivered) <= cSees
    BY DEF RingInvariant, ViewsSafe
  <2> QED
    BY <1>0, <2>2, <2>3, ConsumerReadsFacts, InvFacts
<1>4. ViewsSafe'
  <2>1. cSees' = cPos' - 1 /\ Len(delivered) <= cSees'
    BY <1>0, <1>3, ConsumerReadsFacts, InvFacts
  <2> QED
    BY <1>0, <1>3, <2>1 DEF RingInvariant, ViewsSafe
<1>5. SlotsHoldWaiting'
  BY DEF RingInvariant, SlotsHoldWaiting
<1>6. FifoIntegrity'
  BY DEF RingInvariant, FifoIntegrity
<1> QED
  BY <1>1, <1>2, <1>4, <1>5, <1>6 DEF RingInvariant

LEMMA PopReadInv ==
  ASSUME Inv, PopRead
  PROVE  Inv'
<1> USE DEF PopRead, producerVars, Inv
<1>1. TypeOK'
  BY DEF TypeOK
<1>2. StoresInStep'
  BY DEF RingInvariant, StoresInStep
<1>3. ViewsSafe'
  BY DEF RingInvariant, ViewsSafe
<1>4. SlotsHoldWaiting'
  <2>1. Len(delivered) + 1 \in Len(delivered) + 1 .. Len(accepted)
    BY InvFacts DEF RingInvariant, ViewsSafe
  <2>2. cTail = (Len(delivered) + 1 - 1) % N
    BY InvFacts DEF RingInvariant, StoresInStep
  <2>3. out' = accepted[Len(delivered) + 1]
    BY <2>1, <2>2 DEF RingInvariant, SlotsHoldWaiting
  <2> QED
    BY <2>3 DEF RingInvariant, SlotsHoldWaiting
<1>5. FifoIntegrity'
  BY DEF RingInvariant, FifoIntegrity
<1> QED
  BY <1>1, <1>2, <1>3, <1>4, <1>5 DEF RingInvariant

LEMMA PopReleaseInv ==
  ASSUME Inv, PopRelease
  PROVE  Inv'
<1> USE DEF PopRelease, producerVars, Inv
<1> DEFINE k == Len(delivered)
           store == [index |-> NextIndex(cTail), carries |-> k + 1]
<1>1. /\ k \in Nat /\ k + 1 \in Nat
      /\ cTail = k % N /\ out = accepted[k + 1] /\ k < cSees
  BY InvFacts DEF RingInvariant, StoresInStep, SlotsHoldWaiting, ViewsSafe
<1>2. store = [index |-> (k + 1) % N, carries |-> k + 1] /\ store \in Store
  BY <1>1, ModSuccessor, ModRange, QueueAssumption DEF NextIndex, Store, Index
<1>3. /\ tail' \in Seq(Store) /\ tail' # << >>
      /\ Len(tail') = Len(tail) + 1
      /\ \A i \in 1 .. Len(tail) : tail'[i] = tail[i]
      /\ tail'[Len(tail) + 1] = store
  BY <1>2, AppendFacts DEF TypeOK
<1>4. /\ delivered' \in Seq(Sample \cup {Blank})
      /\ Len(delivered') = k + 1
      /\ \A i \in 1 .. k : delivered'[i] = delivered[i]
      /\ delivered'[k + 1] = out
  BY AppendFacts DEF TypeOK
<1> HIDE DEF store
<1>5. TypeOK'
  <2>1. pPos \in 1 .. Len(tail')
    BY <1>3, InvFacts DEF TypeOK
  <2> QED
    BY <1>3, <1>4, <2>1 DEF TypeOK
<1>6. StoresInStep'
  <2>1. Len(tail') = Len(delivered') + 1
    BY <1>3, <1>4, InvFacts
  <2>2. \A i \in 1 .. Len(tail') : tail'[i] = [index |-> (i - 1) % N, carries |-> i - 1]
    <3> SUFFICES ASSUME NEW i \in 1 .. Len(tail')
                 PROVE  tail'[i] = [index |-> (i - 1) % N, carries |-> i - 1]
      OBVIOUS
    <3>1. CASE i \in 1 .. Len(tail)
      BY <1>3, <3>1 DEF RingInvariant, StoresInStep
    <3>2. CASE i = Len(tail) + 1
      <4>1. i - 1 = k + 1
        BY <1>1, <3>2, InvFacts
      <4> QED
        BY <1>2, <1>3, <3>2, <4>1
    <3> QED
      BY <1>3, <3>1, <3>2, InvFacts
  <2> QED
    BY <2>1, <2>2 DEF RingInvariant, StoresInStep
<1>7. ViewsSafe'
  BY <1>1, <1>3, <1>4, InvFacts DEF RingInvariant, ViewsSafe
<1>8. SlotsHoldWaiting'
  BY <1>1, <1>4, InvFacts DEF RingInvariant, SlotsHoldWaiting
<1>9. FifoIntegrity'
  <2>1. k + 1 <= Len(accepted)
    BY <1>1, InvFacts
  <2> QED
    BY <1>1, <1>4, <2>1, InvFacts DEF RingInvariant, FifoIntegrity
<1> QED
  BY <1>5, <1>6, <1>7, <1>8, <1>9 DEF RingInvariant

LEMMA NextInv == Inv /\ [Next]_vars => Inv'
<1> SUFFICES ASSUME Inv, [Next]_vars
             PROVE  Inv'
  OBVIOUS
<1>1. ASSUME NEW v \in Sample, PushLoadHead(v)
      PROVE  Inv'
  BY <1>1, PushLoadHeadInv
<1>2. ASSUME NEW i \in 1 .. Len(tail), PushFull(i)
      PROVE  Inv'
  BY <1>2, PushFullInv
<1>3. ASSUME NEW i \in 1 .. Len(tail), PushRoom(i)
      PROVE  Inv'
  BY <1>3, PushRoomInv
<1>4. CASE PushWrite
  BY <1>4, PushWriteInv
<1>5. CASE PushPublish
  BY <1>5, PushPublishInv
<1>6. ASSUME NEW i \in 1 .. Len(head), PopEmpty(i)
      PROVE  Inv'
  BY <1>6, PopEmptyInv
<1>7. ASSUME NEW i \in 1 .. Len(head), PopFound(i)
      PROVE  Inv'
  BY <1>7, PopFoundInv
<1>8. CASE PopRead
  BY <1>8, PopReadInv
<1>9. CASE PopRelease
  BY <1>9, PopReleaseInv
<1>10. CASE UNCHANGED vars
  BY <1>10 DEF vars, producerVars, consumerVars, Inv, TypeOK, RingInvariant,
     StoresInStep, ViewsSafe, SlotsHoldWaiting, FifoIntegrity
<1> QED
  BY <1>1, <1>2, <1>3, <1>4, <1>5, <1>6, <1>7, <1>8, <1>9, <1>10 DEF Next, Push, Pop

\* Inv holds throughout: the theorem the others are read off.
LEMMA InvAlways == Spec => []Inv
BY InitInv, NextInv, PTL DEF Spec

\* TypeOK of signal_queue.hpp's ring, for every size: no index leaves the array.
THEOREM TypeCorrect == Spec => []TypeOK
<1>1. Inv => TypeOK
  BY DEF Inv
<1> QED
  BY <1>1, InvAlways, PTL

\* RingInvariant for every size of the ring.
THEOREM RingCorrect == Spec => []RingInvariant
<1>1. Inv => RingInvariant
  BY DEF Inv
<1> QED
  BY <1>1, InvAlways, PTL

\* Samples come out of pop() in the order and with the contents of push().
THEOREM FifoCorrect == Spec => []FifoIntegrity
<1>1. Inv => FifoIntegrity
  BY DEF Inv, RingInvariant
<1> QED
  BY <1>1, InvAlways, PTL

\* The two acquire/release pairs of signal_queue.hpp are enough: no access to
\* a slot ever races with another, with loads as stale as C++ lets them be.
THEOREM RaceFreedom == Spec => []NoSlotRace
<1>1. Inv => NoSlotRace
  <2> SUFFICES ASSUME Inv
               PROVE  NoSlotRace
    OBVIOUS
  <2> QED
    BY InvFacts DEF Inv, RingInvariant, ViewsSafe, NoSlotRace
<1> QED
  BY <1>1, InvAlways, PTL

\* Every access of the ring is a step of the bounded FIFO or no step of it.
LEMMA StepImplements == Inv /\ [Next]_vars => [Fifo!Next]_Fifo!vars
<1> SUFFICES ASSUME Inv, [Next]_vars
             PROVE  [Fifo!Next]_Fifo!vars
  OBVIOUS
<1> USE DEF Fifo!vars
<1>1. ASSUME NEW v \in Sample, PushLoadHead(v)
      PROVE  UNCHANGED Fifo!vars
  BY <1>1 DEF PushLoadHead, consumerVars
<1>2. ASSUME NEW i, PushFull(i)
      PROVE  Fifo!Refuse
  BY <1>2 DEF PushFull, consumerVars, Fifo!Refuse
<1>3. ASSUME NEW i, PushRoom(i)
      PROVE  UNCHANGED Fifo!vars
  BY <1>3 DEF PushRoom, consumerVars
<1>4. CASE PushWrite
  BY <1>4 DEF PushWrite, consumerVars
<1>5. CASE PushPublish
  <2>1. value \in Sample /\ Len(accepted) - Len(delivered) < N - 1
    <3>1. value \in Sample /\ Len(accepted) - pSees <= N - 2
      BY <1>5 DEF PushPublish, Inv, RingInvariant, SlotsHoldWaiting, ViewsSafe
    <3>2. Len(accepted) - Len(delivered) <= N - 2
      BY <3>1, InvFacts, LagShrinks
    <3> QED
      BY <3>1, <3>2, InvFacts
  <2>2. Fifo!Accept(value)
    BY <1>5, <2>1 DEF PushPublish, consumerVars, Fifo!Accept, Fifo!Waiting
  <2> QED
    BY <2>1, <2>2 DEF Fifo!Next
<1>6. ASSUME NEW i, PopEmpty(i)
      PROVE  UNCHANGED Fifo!vars
  BY <1>6 DEF PopEmpty, producerVars
<1>7. ASSUME NEW i, PopFound(i)
      PROVE  UNCHANGED Fifo!vars
  BY <1>7 DEF PopFound, producerVars
<1>8. CASE PopRead
  BY <1>8 DEF PopRead, producerVars
<1>9. CASE PopRelease
  <2>1. out = accepted[Len(delivered) + 1] /\ Len(accepted) - Len(delivered) > 0
    BY <1>9, InvFacts DEF PopRelease, Inv, RingInvariant, SlotsHoldWaiting, ViewsSafe
  <2>2. Fifo!Deliver
    BY <1>9, <2>1 DEF PopRelease, producerVars, Fifo!Deliver, Fifo!Waiting
  <2> QED
    BY <2>2 DEF Fifo!Next
<1>10. CASE UNCHANGED vars
  BY <1>10 DEF vars, producerVars, consumerVars
<1> QED
  BY <1>1, <1>2, <1>3, <1>4, <1>5, <1>6, <1>7, <1>8, <1>9, <1>10
  DEF Next, Push, Pop, Fifo!Next

\* The ring of signal_queue.hpp is a bounded FIFO of N - 1 samples that never
\* blocks its producer.
THEOREM RingImplementsFifo == Spec => ImplementsFifo
<1>1. Init => Fifo!Init
  BY DEF Init, Fifo!Init
<1> QED
  BY <1>1, InvAlways, StepImplements, PTL DEF Spec, ImplementsFifo, Fifo!Spec

=============================================================================
