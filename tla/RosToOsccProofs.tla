--------------------------- MODULE RosToOsccProofs ---------------------------
(***************************************************************************)
(* Proofs about RosToOscc for every set of channels and values, all limits *)
(* and all depths of the subscriptions.                                    *)
(***************************************************************************)
EXTENDS RosToOscc, SequenceTheorems, TLAPS

-----------------------------------------------------------------------------
(* Clamping. *)

LEMMA StdClampInt ==
  ASSUME NEW v \in Int, NEW l \in Int, NEW h \in Int
  PROVE  StdClamp(v, l, h) \subseteq Int
BY DEF StdClamp

\* Between ordered limits std::clamp() has one result, the nearest allowed value.
LEMMA StdClampNearest ==
  ASSUME NEW v \in Int, NEW l \in Int, NEW h \in Int, l <= h,
         NEW w \in StdClamp(v, l, h)
  PROVE  w \in l .. h /\ \A u \in l .. h : Distance(w, v) <= Distance(u, v)
BY DEF StdClamp, Distance

LEMMA FiniteInt ==
  ASSUME NEW c \in Channel, NEW v \in Payload(c)
  PROVE  Finite(v) \in Int
<1>1. v \in Value \cup {NonFinite}
  BY LimitsAssumption DEF Payload
<1> QED
  BY <1>1, LimitsAssumption DEF Finite

-----------------------------------------------------------------------------
(* The subscriptions. *)

LEMMA KeepLastHolds ==
  ASSUME NEW S, NEW q \in Seq(S), NEW m \in S, NEW n \in Nat \ {0}, Len(q) <= n
  PROVE  /\ KeepLast(q, m, n) \in Seq(S)
         /\ Len(KeepLast(q, m, n)) \in 1 .. n
         /\ KeepLast(q, m, n)[Len(KeepLast(q, m, n))] = m
<1>1. CASE Len(q) < n
  <2>1. KeepLast(q, m, n) = Append(q, m)
    BY <1>1 DEF KeepLast
  <2>2. Append(q, m) \in Seq(S) /\ Len(Append(q, m)) = Len(q) + 1
        /\ Append(q, m)[Len(q) + 1] = m
    OBVIOUS
  <2> QED
    BY <1>1, <2>1, <2>2
<1>2. CASE ~ (Len(q) < n)
  <2>1. Len(q) = n /\ q # << >>
    BY <1>2
  <2>2. Tail(q) \in Seq(S) /\ Len(Tail(q)) = n - 1
    BY <2>1
  <2>3. KeepLast(q, m, n) = Append(Tail(q), m)
    BY <1>2 DEF KeepLast
  <2>4. /\ Append(Tail(q), m) \in Seq(S) /\ Len(Append(Tail(q), m)) = n
        /\ Append(Tail(q), m)[n] = m
    BY <2>2
  <2> QED
    BY <2>3, <2>4
<1> QED
  BY <1>1, <1>2

\* Taking the first message leaves the latest, unless it was the first.
LEMMA TailHolds ==
  ASSUME NEW S, NEW q \in Seq(S), q # << >>
  PROVE  /\ Head(q) \in S
         /\ Tail(q) \in Seq(S) /\ Len(Tail(q)) = Len(q) - 1
         /\ Tail(q) = << >> => Head(q) = q[Len(q)]
         /\ Tail(q) # << >> => Tail(q)[Len(Tail(q))] = q[Len(q)]
<1>1. Len(q) \in Nat /\ Len(q) > 0 /\ Head(q) = q[1] /\ Head(q) \in S
  OBVIOUS
<1>2. /\ Tail(q) \in Seq(S) /\ Len(Tail(q)) = Len(q) - 1
      /\ \A i \in 1 .. Len(Tail(q)) : Tail(q)[i] = q[i + 1]
  OBVIOUS
<1>3. ASSUME Tail(q) = << >>
      PROVE  Head(q) = q[Len(q)]
  <2>1. Len(Tail(q)) = 0
    BY <1>2, <1>3, EmptySeq, Zenon
  <2>2. \A n \in Nat : n - 1 = 0 => n = 1
    OBVIOUS
  <2>3. Len(q) = 1
    BY <1>1, <1>2, <2>1, <2>2, Zenon
  <2> QED
    BY <1>1, <2>3
<1>4. ASSUME Tail(q) # << >>
      PROVE  Tail(q)[Len(Tail(q))] = q[Len(q)]
  <2>1. Len(Tail(q)) \in 1 .. Len(Tail(q)) /\ Len(Tail(q)) + 1 = Len(q)
    BY <1>1, <1>2, <1>4
  <2>2. Tail(q)[Len(Tail(q))] = q[Len(Tail(q)) + 1]
    BY <1>2, <2>1
  <2> QED
    BY <2>1, <2>2
<1> QED
  BY <1>1, <1>2, <1>3, <1>4

-----------------------------------------------------------------------------
(* The inductive invariant. *)

ED == "enable_disable"

LimitsOK ==
  /\ lo \in [Channel -> Int] /\ hi \in [Channel -> Int]
  /\ \A c \in Channel : lo[c] \in LoRange[c] /\ hi[c] \in HiRange[c]

InboxOK ==
  /\ inbox = [t \in Topic |-> inbox[t]]
  /\ \A t \in Topic : inbox[t] \in Seq(Payload(t)) /\ Len(inbox[t]) <= Depth[t]

\* What a channel was last sent is a result of clamping what was asked.
ClampedOK(c) ==
  \/ bus[c] = << >> /\ asked[c] = << >>
  \/ \E v, w \in Int : /\ asked[c] = << v >> /\ bus[c] = << w >>
                       /\ w \in StdClamp(v, lo[c], hi[c])

BusOK ==
  /\ bus = [c \in Channel |-> bus[c]] /\ asked = [c \in Channel |-> asked[c]]
  /\ \A c \in Channel : ClampedOK(c)

\* The message that was published last is the one that is taken last.
RequestsOK ==
  /\ enabled \subseteq Channel /\ wanted \in BOOLEAN /\ failed \in BOOLEAN
  /\ inbox[ED] # << >> => inbox[ED][Len(inbox[ED])] = wanted

\* All but DisableSettles, which holds on top of it: roscco_node keeps this part
\* when it dies and leaves the modules enabled.
Inv == LimitsOK /\ InboxOK /\ BusOK /\ RequestsOK

LEMMA TopicFacts ==
  /\ ED \in Topic /\ Payload(ED) = BOOLEAN
  /\ \A c \in Channel : c \in Topic /\ c # ED
BY LimitsAssumption DEF Topic, ED, Payload

LEMMA InitInv == Init => Inv
<1> SUFFICES ASSUME Init
             PROVE  Inv
  OBVIOUS
<1>1. LimitsOK
  <2>1. /\ lo \in [Channel -> UNION {LoRange[c] : c \in Channel}]
        /\ hi \in [Channel -> UNION {HiRange[c] : c \in Channel}]
        /\ \A c \in Channel : lo[c] \in LoRange[c] /\ hi[c] \in HiRange[c]
    BY DEF Init, Limits
  <2>2. \A c \in Channel : lo[c] \in Int /\ hi[c] \in Int
    BY <2>1, LimitsAssumption
  <2> QED
    BY <2>1, <2>2 DEF LimitsOK
<1>2. InboxOK
  <2>1. inbox = [t \in Topic |-> << >>]
    BY DEF Init, NoMessages
  <2>2. inbox = [t \in Topic |-> inbox[t]]
    BY <2>1
  <2>3. ASSUME NEW t \in Topic
        PROVE  inbox[t] \in Seq(Payload(t)) /\ Len(inbox[t]) <= Depth[t]
    <3>1. inbox[t] = << >> /\ Depth[t] \in Nat
      BY <2>1, LimitsAssumption
    <3>2. Len(inbox[t]) = 0
      BY <3>1
    <3> QED
      BY <3>1, <3>2
  <2> QED
    BY <2>2, <2>3 DEF InboxOK
<1>3. BusOK
  BY DEF Init, BusOK, ClampedOK
<1>4. RequestsOK
  BY TopicFacts DEF Init, NoMessages, RequestsOK
<1> QED
  BY <1>1, <1>2, <1>3, <1>4 DEF Inv

-----------------------------------------------------------------------------
(* The steps. *)

\* A message is published on topic t.
LEMMA PublishInbox ==
  ASSUME InboxOK, NEW t \in Topic, NEW m \in Payload(t),
         inbox' = [inbox EXCEPT ![t] = KeepLast(@, m, Depth[t])]
  PROVE  /\ InboxOK'
         /\ inbox'[t] # << >> /\ inbox'[t][Len(inbox'[t])] = m
         /\ \A u \in Topic : u # t => inbox'[u] = inbox[u]
<1>1. inbox = [u \in Topic |-> inbox[u]]
  BY DEF InboxOK
<1>2. inbox' = [u \in Topic |-> IF u = t THEN KeepLast(inbox[t], m, Depth[t]) ELSE inbox[u]]
  BY <1>1
<1>3. inbox[t] \in Seq(Payload(t)) /\ Len(inbox[t]) <= Depth[t] /\ Depth[t] \in Nat \ {0}
  BY LimitsAssumption DEF InboxOK
<1>4. /\ KeepLast(inbox[t], m, Depth[t]) \in Seq(Payload(t))
      /\ Len(KeepLast(inbox[t], m, Depth[t])) \in 1 .. Depth[t]
      /\ KeepLast(inbox[t], m, Depth[t])[Len(KeepLast(inbox[t], m, Depth[t]))] = m
  BY <1>3, KeepLastHolds
<1>5. inbox'[t] = KeepLast(inbox[t], m, Depth[t])
  BY <1>2
<1>6. \A u \in Topic : u # t => inbox'[u] = inbox[u]
  BY <1>2
<1>7. inbox' = [u \in Topic |-> inbox'[u]]
  BY <1>2
<1>8. /\ inbox'[t] \in Seq(Payload(t)) /\ Len(inbox'[t]) <= Depth[t]
      /\ inbox'[t] # << >> /\ inbox'[t][Len(inbox'[t])] = m
  BY <1>3, <1>4, <1>5
<1>9. InboxOK'
  BY <1>6, <1>7, <1>8 DEF InboxOK
<1> QED
  BY <1>6, <1>8, <1>9

LEMMA TakeInbox ==
  ASSUME InboxOK, NEW t \in Topic, Take(t)
  PROVE  /\ InboxOK'
         /\ Head(inbox[t]) \in Payload(t)
         /\ inbox'[t] = << >> => Head(inbox[t]) = inbox[t][Len(inbox[t])]
         /\ inbox'[t] # << >> => inbox'[t][Len(inbox'[t])] = inbox[t][Len(inbox[t])]
         /\ \A u \in Topic : u # t => inbox'[u] = inbox[u]
<1>1. /\ inbox = [u \in Topic |-> inbox[u]] /\ inbox[t] # << >>
      /\ inbox' = [inbox EXCEPT ![t] = Tail(@)]
  BY DEF InboxOK, Take
<1>2. inbox' = [u \in Topic |-> IF u = t THEN Tail(inbox[t]) ELSE inbox[u]]
  BY <1>1
<1>3. inbox[t] \in Seq(Payload(t)) /\ Len(inbox[t]) <= Depth[t] /\ Depth[t] \in Nat
  BY LimitsAssumption DEF InboxOK
<1>4. /\ Head(inbox[t]) \in Payload(t)
      /\ Tail(inbox[t]) \in Seq(Payload(t)) /\ Len(Tail(inbox[t])) = Len(inbox[t]) - 1
      /\ Tail(inbox[t]) = << >> => Head(inbox[t]) = inbox[t][Len(inbox[t])]
      /\ Tail(inbox[t]) # << >> => Tail(inbox[t])[Len(Tail(inbox[t]))] = inbox[t][Len(inbox[t])]
  BY <1>1, <1>3, TailHolds
<1>5. inbox'[t] = Tail(inbox[t]) /\ \A u \in Topic : u # t => inbox'[u] = inbox[u]
  BY <1>2
<1>6. inbox' = [u \in Topic |-> inbox'[u]]
  BY <1>2
<1>7. inbox'[t] \in Seq(Payload(t)) /\ Len(inbox'[t]) <= Depth[t]
  BY <1>3, <1>4, <1>5
<1>8. InboxOK'
  BY <1>5, <1>6, <1>7 DEF InboxOK
<1> QED
  BY <1>4, <1>5, <1>8

LEMMA LimitsStay == LimitsOK /\ UNCHANGED limitVars => LimitsOK'
BY DEF LimitsOK, limitVars

LEMMA BusStays == BusOK /\ UNCHANGED << limitVars, bus, asked >> => BusOK'
BY DEF BusOK, ClampedOK, limitVars

\* The requests, while only other topics move and no module is enabled.
LEMMA RequestsStay ==
  ASSUME RequestsOK, inbox'[ED] = inbox[ED], enabled' \subseteq enabled, UNCHANGED requestVars
  PROVE  RequestsOK'
BY DEF RequestsOK, requestVars, ED

LEMMA PublishCommandInv ==
  ASSUME Inv, NEW c \in Channel, NEW v \in Payload(c), PublishCommand(c, v)
  PROVE  Inv'
<1>1. inbox' = [inbox EXCEPT ![c] = KeepLast(@, v, Depth[c])]
      /\ UNCHANGED << limitVars, bus, asked, enabled, requestVars >>
  BY DEF PublishCommand, moduleVars
<1>2. InboxOK' /\ inbox'[ED] = inbox[ED]
  BY <1>1, PublishInbox, TopicFacts DEF Inv
<1> QED
  BY <1>1, <1>2, LimitsStay, BusStays, RequestsStay DEF Inv

LEMMA PublishRequestInv ==
  ASSUME Inv, NEW e \in BOOLEAN, PublishEnableDisable(e)
  PROVE  Inv'
<1>1. /\ inbox' = [inbox EXCEPT ![ED] = KeepLast(@, e, Depth[ED])]
      /\ wanted' = e /\ failed' = FALSE
      /\ UNCHANGED << limitVars, bus, asked, enabled >>
  BY DEF PublishEnableDisable, moduleVars, ED
<1>2. InboxOK' /\ inbox'[ED] # << >> /\ inbox'[ED][Len(inbox'[ED])] = e
  BY <1>1, PublishInbox, TopicFacts DEF Inv
<1>3. RequestsOK'
  BY <1>1, <1>2 DEF Inv, RequestsOK, ED
<1> QED
  BY <1>1, <1>2, <1>3, LimitsStay, BusStays DEF Inv

LEMMA CommandInv ==
  ASSUME Inv, NEW c \in Channel, CommandCallback(c)
  PROVE  Inv'
<1> DEFINE v == Finite(Head(inbox[c]))
<1>1. Take(c) /\ UNCHANGED << limitVars, enabled, requestVars >>
  BY DEF CommandCallback
<1>2. InboxOK' /\ Head(inbox[c]) \in Payload(c) /\ inbox'[ED] = inbox[ED]
  BY <1>1, TakeInbox, TopicFacts DEF Inv
<1>3. v \in Int
  BY <1>2, FiniteInt
<1>4. PICK w \in StdClamp(v, lo[c], hi[c]) : bus' = [bus EXCEPT ![c] = << w >>]
  BY DEF CommandCallback, Clamp
<1>5. asked' = [asked EXCEPT ![c] = << v >>]
  BY DEF CommandCallback
<1>6. lo[c] \in Int /\ hi[c] \in Int
  BY DEF Inv, LimitsOK
<1> HIDE DEF v
<1>7. w \in Int
  BY <1>3, <1>4, <1>6, StdClampInt
<1>8. /\ bus = [k \in Channel |-> bus[k]] /\ asked = [k \in Channel |-> asked[k]]
      /\ \A k \in Channel : ClampedOK(k)
  BY DEF Inv, BusOK
<1>9. /\ bus' = [k \in Channel |-> IF k = c THEN << w >> ELSE bus[k]]
      /\ asked' = [k \in Channel |-> IF k = c THEN << v >> ELSE asked[k]]
      /\ lo' = lo /\ hi' = hi
  BY <1>1, <1>4, <1>5, <1>8 DEF limitVars
<1>10. ClampedOK(c)'
  BY <1>3, <1>4, <1>7, <1>9 DEF ClampedOK
<1>11. ASSUME NEW k \in Channel, k # c
       PROVE  ClampedOK(k)'
  BY <1>8, <1>9, <1>11 DEF ClampedOK
<1>12. bus' = [k \in Channel |-> bus'[k]] /\ asked' = [k \in Channel |-> asked'[k]]
  BY <1>9
<1>13. BusOK'
  BY <1>10, <1>11, <1>12 DEF BusOK
<1> QED
  BY <1>1, <1>2, <1>13, LimitsStay, RequestsStay DEF Inv

LEMMA CommandFailsInv ==
  ASSUME Inv, NEW c \in Channel, CommandFails(c)
  PROVE  Inv'
<1>1. Take(c) /\ UNCHANGED << limitVars, bus, asked, enabled, requestVars >>
  BY DEF CommandFails, moduleVars
<1>2. InboxOK' /\ inbox'[ED] = inbox[ED]
  BY <1>1, TakeInbox, TopicFacts DEF Inv
<1> QED
  BY <1>1, <1>2, LimitsStay, BusStays, RequestsStay DEF Inv

LEMMA RequestTakenInv ==
  ASSUME Inv, EnableDisableCallback \/ EnableDisableFails
  PROVE  Inv'
<1>1. Take(ED) /\ UNCHANGED << limitVars, bus, asked, wanted >> /\ inbox[ED] # << >>
  BY DEF EnableDisableCallback, EnableDisableFails, Take, ED
<1>2. /\ InboxOK' /\ Head(inbox[ED]) \in BOOLEAN
      /\ inbox'[ED] = << >> => Head(inbox[ED]) = inbox[ED][Len(inbox[ED])]
      /\ inbox'[ED] # << >> => inbox'[ED][Len(inbox'[ED])] = inbox[ED][Len(inbox[ED])]
  BY <1>1, TakeInbox, TopicFacts DEF Inv
<1>3. /\ inbox'[ED] = << >> => Head(inbox[ED]) = wanted
      /\ inbox'[ED] # << >> => inbox'[ED][Len(inbox'[ED])] = wanted
  BY <1>1, <1>2 DEF Inv, RequestsOK
<1>4. enabled' \subseteq Channel /\ failed' \in BOOLEAN
  BY DEF EnableDisableCallback, EnableDisableFails, SwitchModules, Inv, RequestsOK
<1>5. RequestsOK'
  BY <1>1, <1>3, <1>4 DEF Inv, RequestsOK
<1> QED
  BY <1>1, <1>2, <1>5, LimitsStay, BusStays DEF Inv

LEMMA ModuleDisablesInv ==
  ASSUME Inv, NEW c \in Channel, ModuleDisables(c)
  PROVE  Inv'
<1>1. /\ UNCHANGED << limitVars, inbox, bus, asked, requestVars >>
      /\ enabled' \subseteq enabled
  BY DEF ModuleDisables
<1>2. InboxOK'
  BY <1>1 DEF Inv, InboxOK
<1> QED
  BY <1>1, <1>2, LimitsStay, BusStays, RequestsStay DEF Inv

LEMMA NextInv == Inv /\ [Next]_vars => Inv'
<1> SUFFICES ASSUME Inv, [Next]_vars
             PROVE  Inv'
  OBVIOUS
<1>1. CASE UNCHANGED vars
  <2>1. UNCHANGED << limitVars, inbox, bus, asked, enabled, requestVars >>
    BY <1>1 DEF vars, moduleVars
  <2>2. InboxOK'
    BY <2>1 DEF Inv, InboxOK
  <2> QED
    BY <2>1, <2>2, LimitsStay, BusStays, RequestsStay DEF Inv
<1> QED
  BY <1>1, PublishCommandInv, PublishRequestInv, CommandInv, CommandFailsInv,
     RequestTakenInv, ModuleDisablesInv DEF Next

LEMMA InvAlways == Spec => []Inv
BY InitInv, NextInv, PTL DEF Spec

\* The last request decides, once it has been taken.
LEMMA NextSettles == Inv /\ DisableSettles /\ [Next]_vars => DisableSettles'
<1> SUFFICES ASSUME Inv, DisableSettles, [Next]_vars
             PROVE  DisableSettles'
  OBVIOUS
<1>1. ASSUME inbox'[ED] = inbox[ED], enabled' \subseteq enabled, UNCHANGED requestVars
      PROVE  DisableSettles'
  BY <1>1 DEF DisableSettles, requestVars, ED
<1>2. ASSUME NEW c \in Channel, NEW v \in Payload(c), PublishCommand(c, v)
      PROVE  DisableSettles'
  <2>1. inbox' = [inbox EXCEPT ![c] = KeepLast(@, v, Depth[c])]
    BY <1>2 DEF PublishCommand
  <2>2. inbox'[ED] = inbox[ED]
    BY <2>1, PublishInbox, TopicFacts DEF Inv
  <2> QED
    BY <1>1, <1>2, <2>2 DEF PublishCommand, moduleVars
<1>3. ASSUME NEW e \in BOOLEAN, PublishEnableDisable(e)
      PROVE  DisableSettles'
  <2>1. inbox' = [inbox EXCEPT ![ED] = KeepLast(@, e, Depth[ED])]
    BY <1>3 DEF PublishEnableDisable, ED
  <2>2. inbox'[ED] # << >>
    BY <2>1, PublishInbox, TopicFacts DEF Inv
  <2> QED
    BY <2>2 DEF DisableSettles, ED
<1>4. ASSUME NEW c \in Channel, CommandCallback(c) \/ CommandFails(c)
      PROVE  DisableSettles'
  <2>1. Take(c) /\ UNCHANGED << enabled, requestVars >>
    BY <1>4 DEF CommandCallback, CommandFails, moduleVars
  <2>2. inbox'[ED] = inbox[ED]
    BY <2>1, TakeInbox, TopicFacts DEF Inv
  <2> QED
    BY <1>1, <2>1, <2>2
<1>5. ASSUME NEW c \in Channel, ModuleDisables(c)
      PROVE  DisableSettles'
  BY <1>1, <1>5 DEF ModuleDisables
<1>6. CASE EnableDisableCallback \/ EnableDisableFails
  <2>1. Take(ED) /\ wanted' = wanted /\ inbox[ED] # << >>
    BY <1>6 DEF EnableDisableCallback, EnableDisableFails, Take, ED
  <2>2. inbox'[ED] = << >> => Head(inbox[ED]) = inbox[ED][Len(inbox[ED])]
    BY <2>1, TakeInbox, TopicFacts DEF Inv
  <2>3. inbox'[ED] = << >> => Head(inbox[ED]) = wanted
    BY <2>1, <2>2 DEF Inv, RequestsOK
  <2>4. inbox'[ED] = << >> => failed' \/ enabled' = IF Head(inbox[ED]) THEN Channel ELSE {}
    BY <1>6 DEF EnableDisableCallback, EnableDisableFails, SwitchModules, ED
  <2> QED
    BY <2>1, <2>3, <2>4 DEF DisableSettles, ED
<1>7. CASE UNCHANGED vars
  BY <1>1, <1>7 DEF vars, moduleVars
<1> QED
  BY <1>2, <1>3, <1>4, <1>5, <1>6, <1>7 DEF Next

-----------------------------------------------------------------------------
LEMMA InvTypes == Inv => TypeOK
<1> SUFFICES ASSUME Inv
             PROVE  TypeOK
  OBVIOUS
<1>1. ASSUME NEW c \in Channel
      PROVE  /\ bus[c] = << >> \/ bus[c][1] \in Int
             /\ asked[c] = << >> \/ asked[c][1] \in Int
  <2>1. ClampedOK(c)
    BY DEF Inv, BusOK
  <2> QED
    BY <2>1 DEF ClampedOK
<1> QED
  BY <1>1 DEF Inv, LimitsOK, InboxOK, RequestsOK, TypeOK

\* Whatever is published, the subscriptions keep to their depth and what is
\* sent to the OSCC API is a number: NaN is stopped in RosToOscc::clamp().
THEOREM TypeCorrect == Spec => []TypeOK
BY InvTypes, InvAlways, PTL

\* What the invariant says of the values on the bus.
LEMMA ClampedBus ==
  ASSUME Inv, NEW c \in Channel, bus[c] # << >>
  PROVE  /\ lo[c] \in Int /\ hi[c] \in Int /\ asked[c][1] \in Int
         /\ bus[c][1] \in StdClamp(asked[c][1], lo[c], hi[c])
<1>1. PICK v \in Int, w \in Int : /\ asked[c] = << v >> /\ bus[c] = << w >>
                                  /\ w \in StdClamp(v, lo[c], hi[c])
  BY DEF Inv, BusOK, ClampedOK
<1>2. asked[c][1] = v /\ bus[c][1] = w
  BY <1>1
<1> QED
  BY <1>1, <1>2 DEF Inv, LimitsOK

LEMMA InvNearest == Inv => BusIsNearestAllowed
<1> SUFFICES ASSUME Inv, NEW c \in Channel, bus[c] # << >>, lo[c] <= hi[c]
             PROVE  /\ bus[c][1] \in lo[c] .. hi[c]
                    /\ \A w \in lo[c] .. hi[c] :
                         Distance(bus[c][1], asked[c][1]) <= Distance(w, asked[c][1])
  BY DEF BusIsNearestAllowed
<1> QED
  BY ClampedBus, StdClampNearest

\* RosToOscc::clamp(): between ordered limits, each channel is sent the allowed
\* value that is nearest to the command.
THEOREM NearestAllowed == Spec => []BusIsNearestAllowed
BY InvNearest, InvAlways, PTL

\* std::clamp() and what it may be compiled to: whatever the parameters, the
\* OSCC API is never given a value beyond both of them.
THEOREM AlwaysWithinLimits == Spec => []BusWithinLimits
<1>1. Inv => BusWithinLimits
  <2> SUFFICES ASSUME Inv, NEW c \in Channel, bus[c] # << >>
               PROVE  bus[c][1] \in IF lo[c] <= hi[c] THEN lo[c] .. hi[c] ELSE {lo[c], hi[c]}
    BY DEF BusWithinLimits
  <2>1. /\ lo[c] \in Int /\ hi[c] \in Int /\ asked[c][1] \in Int
        /\ bus[c][1] \in StdClamp(asked[c][1], lo[c], hi[c])
    BY ClampedBus
  <2> QED
    BY <2>1 DEF StdClamp
<1> QED
  BY <1>1, InvAlways, PTL

\* enableDisableCallback(): however many requests come, are pushed out of the
\* subscription or fail, the last of them decides once it has been taken.
THEOREM DisableHasSettled == Spec => []DisableSettles
<1>1. Init => DisableSettles
  BY DEF Init, DisableSettles
<1> QED
  BY <1>1, InitInv, NextInv, NextSettles, PTL DEF Spec

=============================================================================
