-------------------------- MODULE DriveByWireProofs --------------------------
(***************************************************************************)
(* Proofs about DriveByWire for every choice of the time limits, the       *)
(* timer's period, the depth of the subscriptions and the end of time.     *)
(***************************************************************************)
EXTENDS DriveByWire, TLAPS

\* What a keep-last subscription holds after a message m has come.
LEMMA PostHolds ==
  ASSUME NEW S, NEW q \in Seq(S), NEW m \in S
  PROVE  /\ Post(q, m) \in Seq(S)
         /\ \A i \in 1 .. Len(Post(q, m)) :
              \/ Post(q, m)[i] = m
              \/ \E j \in 1 .. Len(q) : Post(q, m)[i] = q[j]
<1>1. CASE ~ Full(q)
  <2>1. Post(q, m) = Append(q, m)
    BY <1>1 DEF Post
  <2> QED
    BY <2>1
<1>2. CASE Full(q)
  <2>1. Len(q) = Depth /\ Depth \in Nat \ {0}
    BY <1>2, WireAssumption DEF Full
  <2>2. q # << >>
    BY <2>1
  <2>3. /\ Tail(q) \in Seq(S) /\ Len(Tail(q)) = Len(q) - 1
        /\ \A i \in 1 .. Len(Tail(q)) : Tail(q)[i] = q[i + 1]
    BY <2>2
  <2>4. Post(q, m) = Append(Tail(q), m)
    BY <1>2 DEF Post
  <2>5. Post(q, m) \in Seq(S) /\ Len(Post(q, m)) = Len(q)
    BY <2>1, <2>3, <2>4
  <2>6. ASSUME NEW i \in 1 .. Len(q)
        PROVE  Post(q, m)[i] = m \/ \E j \in 1 .. Len(q) : Post(q, m)[i] = q[j]
    <3>1. CASE i = Len(q)
      BY <2>3, <2>4, <3>1
    <3>2. CASE i < Len(q)
      <4>1. i \in 1 .. Len(Tail(q)) /\ i + 1 \in 1 .. Len(q)
        BY <2>3, <3>2
      <4>2. Post(q, m)[i] = q[i + 1]
        BY <2>3, <2>4, <4>1
      <4> QED
        BY <4>1, <4>2
    <3> QED
      BY <3>1, <3>2
  <2> QED
    BY <2>5, <2>6
<1> QED
  BY <1>1, <1>2

\* What it holds after the first message has been taken.
LEMMA TailHolds ==
  ASSUME NEW S, NEW q \in Seq(S), q # << >>
  PROVE  /\ Head(q) = q[1] /\ 1 \in 1 .. Len(q)
         /\ Tail(q) \in Seq(S)
         /\ \A i \in 1 .. Len(Tail(q)) : i + 1 \in 1 .. Len(q) /\ Tail(q)[i] = q[i + 1]
<1>1. Len(q) \in Nat /\ Len(q) > 0
  OBVIOUS
<1>2. /\ Tail(q) \in Seq(S) /\ Len(Tail(q)) = Len(q) - 1
      /\ \A i \in 1 .. Len(Tail(q)) : Tail(q)[i] = q[i + 1]
  OBVIOUS
<1> QED
  BY <1>1, <1>2

CommandsTimely ==
  \A i \in 1 .. Len(commands) : CommandTimely(commands[i], now, enabled, released)
RequestsTimely ==
  \A i \in 1 .. Len(requests) : RequestTimely(requests[i], now, enabled, released)

LEMMA InvariantParts ==
  LET Parts == TypeOK /\ CommandsTimely /\ RequestsTimely /\ ModulesTimely
  IN  (WireInvariant <=> Parts) /\ (WireInvariant' <=> Parts')
BY DEF WireInvariant, CommandsTimely, RequestsTimely

\* A step within an instant that leaves control as it is, enables it, or gives
\* it up at that instant.
AtOnce ==
  /\ now' = now
  /\ enabled' \in BOOLEAN /\ released' \in Moment
  /\ \/ enabled'
     \/ ~ enabled /\ released' = released
     \/ released' = now

\* Such a step leaves everything in time that was so before.
LEMMA StillTimely ==
  ASSUME TypeOK, AtOnce
  PROVE  /\ \A m \in CommandMessage :
              CommandTimely(m, now, enabled, released)
                => CommandTimely(m, now', enabled', released')
         /\ \A m \in RequestMessage :
              RequestTimely(m, now, enabled, released)
                => RequestTimely(m, now', enabled', released')
<1>1. now \in Nat /\ released \in Nat
  BY SwitchAssumption DEF TypeOK, Moment
<1>2. /\ \A m \in CommandMessage : m.at \in Nat
      /\ \A m \in RequestMessage : m.at \in Nat
  BY SwitchAssumption DEF CommandMessage, RequestMessage, Moment
<1> QED
  BY <1>1, <1>2 DEF AtOnce, CommandTimely, RequestTimely


LEMMA ConstantsNat ==
  /\ JoyTimeout \in Nat /\ Latency \in Nat /\ ModuleTimeout \in Nat
  /\ MaxTime \in Nat /\ 0 \in Moment /\ Moment \subseteq Nat
BY SwitchAssumption, WireAssumption DEF Moment

LEMMA TimesNat ==
  ASSUME TypeOK
  PROVE  now \in Nat /\ now \in 0 .. now /\ heard \in Nat /\ followed \in Nat /\ released \in Nat
<1>1. followed \in Moment /\ released \in Moment
  BY DEF TypeOK
<1>2. now \in Nat /\ now \in 0 .. now
  BY ConstantsNat DEF TypeOK
<1>3. heard \in Nat
  BY DEF TypeOK
<1>4. followed \in Nat /\ released \in Nat
  BY <1>1, ConstantsNat
<1> QED
  BY <1>2, <1>3, <1>4

\* Waiting commands, untouched.
LEMMA CommandsStay ==
  ASSUME TypeOK, CommandsTimely, AtOnce, UNCHANGED commands
  PROVE  CommandsTimely'
<1> SUFFICES ASSUME NEW i \in 1 .. Len(commands)
             PROVE  CommandTimely(commands[i], now', enabled', released')
  BY DEF CommandsTimely
<1>1. commands[i] \in CommandMessage
  <2>1. commands \in Seq(CommandMessage)
    BY DEF TypeOK
  <2> QED
    BY <2>1
<1> QED
  BY <1>1, StillTimely DEF CommandsTimely

LEMMA RequestsStay ==
  ASSUME TypeOK, RequestsTimely, AtOnce, UNCHANGED requests
  PROVE  RequestsTimely'
<1> SUFFICES ASSUME NEW i \in 1 .. Len(requests)
             PROVE  RequestTimely(requests[i], now', enabled', released')
  BY DEF RequestsTimely
<1>1. requests[i] \in RequestMessage
  <2>1. requests \in Seq(RequestMessage)
    BY DEF TypeOK
  <2> QED
    BY <2>1
<1> QED
  BY <1>1, StillTimely DEF RequestsTimely

\* The modules, untouched.
LEMMA ModulesStay ==
  ASSUME TypeOK, ModulesTimely, AtOnce, UNCHANGED moduleVars
  PROVE  ModulesTimely'
<1>1. heard \in Nat /\ heard <= now /\ now \in Nat /\ released \in Nat /\ Latency \in Nat
  BY ConstantsNat DEF TypeOK
<1>2. now' = now /\ heard' = heard /\ followed' = followed /\ engaged' = engaged
  BY DEF AtOnce, moduleVars
<1>3. ASSUME engaged, ~ enabled'
      PROVE  heard <= released' + Latency
  BY <1>1, <1>3 DEF AtOnce, ModulesTimely
<1> QED
  BY <1>2, <1>3 DEF ModulesTimely

\* The request that setEnabled() publishes when control becomes e.
LEMMA PostRequestTimely ==
  ASSUME TypeOK, RequestsTimely, NEW e \in BOOLEAN,
         now' = now, enabled' = e, PostRequest(e)
  PROVE  /\ AtOnce
         /\ requests' \in Seq(RequestMessage)
         /\ RequestsTimely'
<1> DEFINE m == [at |-> now, enable |-> e]
<1>1. now \in Nat /\ now \in Moment /\ released \in Moment /\ Latency \in Nat
  BY ConstantsNat DEF TypeOK, Moment
<1>2. AtOnce
  BY <1>1 DEF AtOnce, PostRequest, TypeOK
<1>3. m \in RequestMessage /\ requests \in Seq(RequestMessage)
  BY <1>1 DEF RequestMessage, TypeOK
<1>4. requests' = Post(requests, m)
  BY DEF PostRequest
<1>5. RequestTimely(m, now', enabled', released')
  BY <1>1 DEF RequestTimely
<1>6. /\ requests' \in Seq(RequestMessage)
      /\ \A i \in 1 .. Len(requests') :
           requests'[i] = m \/ \E j \in 1 .. Len(requests) : requests'[i] = requests[j]
  <2> HIDE DEF m
  <2>1. /\ Post(requests, m) \in Seq(RequestMessage)
        /\ \A i \in 1 .. Len(Post(requests, m)) :
             \/ Post(requests, m)[i] = m
             \/ \E j \in 1 .. Len(requests) : Post(requests, m)[i] = requests[j]
    BY ONLY <1>3, PostHolds
  <2> QED
    BY <1>4, <2>1
<1>7. ASSUME NEW i \in 1 .. Len(requests')
      PROVE  RequestTimely(requests'[i], now', enabled', released')
  <2>1. CASE requests'[i] = m
    BY <1>5, <2>1
  <2>2. ASSUME NEW j \in 1 .. Len(requests), requests'[i] = requests[j]
        PROVE  RequestTimely(requests'[i], now', enabled', released')
    <3>1. requests[j] \in RequestMessage
      BY <1>3
    <3> QED
      BY <1>2, <2>2, <3>1, StillTimely DEF RequestsTimely
  <2> QED
    BY <1>6, <2>1, <2>2
<1> QED
  BY <1>2, <1>6, <1>7 DEF RequestsTimely

LEMMA InitInvariant == Init => WireInvariant
<1> SUFFICES ASSUME Init
             PROVE  WireInvariant
  OBVIOUS
<1>1. TypeOK
  <2>1. now \in 1 .. MaxTime /\ now \in Moment /\ 0 \in Moment /\ heard \in 0 .. now
    BY SwitchAssumption DEF Init, SwitchInit, Moment
  <2>2. commands \in Seq(CommandMessage) /\ requests \in Seq(RequestMessage)
    BY DEF Init
  <2> QED
    BY <2>1, <2>2 DEF Init, SwitchInit, TypeOK
<1>2. CommandsTimely /\ RequestsTimely /\ ModulesTimely
  BY DEF Init, CommandsTimely, RequestsTimely, ModulesTimely
<1> QED
  BY <1>1, <1>2, InvariantParts

\* joyCallback() without a press, a timer with nothing to do, and no step.
LEMMA QuietStep ==
  ASSUME WireInvariant,
         now' = now, enabled' = enabled, last_joy' \in Moment, rested' \in BOOLEAN,
         sent' \in Moment, fired' \in Moment, fault' \in BOOLEAN,
         UNCHANGED << commands, requests, moduleVars, released >>
  PROVE  WireInvariant'
<1> USE InvariantParts
<1>1. AtOnce
  BY DEF AtOnce, TypeOK
<1>2. TypeOK'
  BY DEF TypeOK, moduleVars
<1> QED
  BY <1>1, <1>2, CommandsStay, RequestsStay, ModulesStay

LEMMA JoyHeardStep ==
  ASSUME WireInvariant, JoyHeard \/ TimerIdles \/ UNCHANGED vars
  PROVE  WireInvariant'
<1>1. TypeOK /\ now \in Moment
  BY ConstantsNat, InvariantParts DEF TypeOK, Moment
<1> QED
  BY <1>1, QuietStep
  DEF TypeOK, JoyHeard, TimerIdles, TimerFires, Hold, switchVars, inboxVars, moduleVars, vars

LEMMA RequestStep ==
  ASSUME WireInvariant, JoyRequests(TRUE) \/ JoyRequests(FALSE) \/ TimerReleases
  PROVE  WireInvariant'
<1> USE InvariantParts
<1>1. PICK e \in BOOLEAN : enabled' = e /\ PostRequest(e)
  BY DEF JoyRequests, TimerReleases, Press, Release
<1>2. now' = now /\ UNCHANGED << commands, moduleVars >> /\ sent' = sent
  BY DEF JoyRequests, TimerReleases, Press, Release
<1>3. last_joy' \in Moment /\ rested' \in BOOLEAN /\ fired' \in Moment
  <2>1. /\ now \in Moment /\ last_joy \in Moment
        /\ rested \in BOOLEAN /\ fired \in Moment
    BY ConstantsNat DEF TypeOK, Moment
  <2> QED
    BY <2>1 DEF JoyRequests, TimerReleases, TimerFires, Press, Release
<1>4. AtOnce /\ requests' \in Seq(RequestMessage) /\ RequestsTimely'
  BY <1>1, <1>2, PostRequestTimely
<1>5. fault' \in BOOLEAN
  BY <1>1 DEF PostRequest, TypeOK, Full
<1>6. TypeOK'
  BY <1>2, <1>3, <1>4, <1>5 DEF TypeOK, AtOnce, RequestMessage, moduleVars
<1> QED
  BY <1>2, <1>4, <1>6, CommandsStay, ModulesStay

\* A command goes out, for a pad that is held.
LEMMA CommandStep ==
  ASSUME WireInvariant, TimerCommands
  PROVE  WireInvariant'
<1> USE InvariantParts
<1> DEFINE m == [at |-> now, joy |-> last_joy]
<1>1. /\ enabled /\ now - last_joy <= JoyTimeout
      /\ now' = now /\ fired' = now /\ sent' = now
      /\ commands' = Post(commands, m)
      /\ UNCHANGED << last_joy, rested, enabled, requests, moduleVars, released >>
  BY DEF TimerCommands, TimerFires, Command, Held
<1>2. now \in Nat /\ now \in Moment /\ last_joy \in Nat /\ last_joy \in Moment
  BY ConstantsNat DEF TypeOK, Moment
<1>3. AtOnce
  BY <1>1 DEF AtOnce, TypeOK
<1>4. m \in CommandMessage /\ commands \in Seq(CommandMessage)
  BY <1>2 DEF CommandMessage, TypeOK
<1>5. CommandTimely(m, now', enabled', released')
  BY <1>1, <1>2, ConstantsNat DEF CommandTimely
<1>6. /\ commands' \in Seq(CommandMessage)
      /\ \A i \in 1 .. Len(commands') :
           commands'[i] = m \/ \E j \in 1 .. Len(commands) : commands'[i] = commands[j]
  <2>1. commands' = Post(commands, m)
    BY <1>1
  <2> HIDE DEF m
  <2>2. /\ Post(commands, m) \in Seq(CommandMessage)
        /\ \A i \in 1 .. Len(Post(commands, m)) :
             \/ Post(commands, m)[i] = m
             \/ \E j \in 1 .. Len(commands) : Post(commands, m)[i] = commands[j]
    BY <1>4, PostHolds
  <2> QED
    BY <2>1, <2>2
<1>7. ASSUME NEW i \in 1 .. Len(commands')
      PROVE  CommandTimely(commands'[i], now', enabled', released')
  <2>1. CASE commands'[i] = m
    BY <1>5, <2>1
  <2>2. ASSUME NEW j \in 1 .. Len(commands), commands'[i] = commands[j]
        PROVE  CommandTimely(commands'[i], now', enabled', released')
    <3>1. commands[j] \in CommandMessage
      BY <1>4
    <3> QED
      BY <1>3, <2>2, <3>1, StillTimely DEF CommandsTimely
  <2> QED
    BY <1>6, <2>1, <2>2
<1>8. fault' \in BOOLEAN
  BY DEF TimerCommands, TypeOK, Full
<1>9. TypeOK'
  BY <1>1, <1>2, <1>6, <1>8 DEF TypeOK, CommandMessage, moduleVars
<1> QED
  BY <1>1, <1>3, <1>7, <1>9, RequestsStay, ModulesStay DEF CommandsTimely

LEMMA DeathStep ==
  ASSUME WireInvariant, TeleopDies
  PROVE  WireInvariant'
<1> USE InvariantParts
<1>1. now \in Moment
  BY ConstantsNat DEF TypeOK, Moment
<1>2. AtOnce
  BY <1>1 DEF AtOnce, TeleopDies, TypeOK
<1>3. UNCHANGED << commands, requests, moduleVars >>
  BY DEF TeleopDies, inboxVars
<1>4. TypeOK'
  BY <1>1, <1>2, <1>3, ConstantsNat DEF TypeOK, AtOnce, TeleopDies, moduleVars
<1> QED
  BY <1>2, <1>3, <1>4, CommandsStay, RequestsStay, ModulesStay

\* Taken or lost, the message is gone, and the others are as timely as before.
LEMMA CommandGone ==
  ASSUME WireInvariant, commands # << >>, commands' = Tail(commands),
         now' = now, enabled' = enabled, released' = released
  PROVE  /\ Head(commands) \in CommandMessage
         /\ CommandTimely(Head(commands), now, enabled, released)
         /\ commands' \in Seq(CommandMessage)
         /\ CommandsTimely'
<1>1. commands \in Seq(CommandMessage) /\ CommandsTimely
  BY InvariantParts DEF TypeOK
<1>2. /\ Head(commands) = commands[1] /\ 1 \in 1 .. Len(commands)
      /\ Tail(commands) \in Seq(CommandMessage)
      /\ \A i \in 1 .. Len(Tail(commands)) :
           i + 1 \in 1 .. Len(commands) /\ Tail(commands)[i] = commands[i + 1]
  BY <1>1, TailHolds
<1>3. commands[1] \in CommandMessage
  BY <1>1, <1>2
<1>4. CommandsTimely'
  <2> SUFFICES ASSUME NEW i \in 1 .. Len(Tail(commands))
               PROVE  CommandTimely(Tail(commands)[i], now, enabled, released)
    BY DEF CommandsTimely
  <2> QED
    BY <1>1, <1>2 DEF CommandsTimely
<1> QED
  BY <1>1, <1>2, <1>3, <1>4 DEF CommandsTimely

LEMMA RequestGone ==
  ASSUME WireInvariant, requests # << >>, requests' = Tail(requests),
         now' = now, enabled' = enabled, released' = released
  PROVE  /\ Head(requests) \in RequestMessage
         /\ RequestTimely(Head(requests), now, enabled, released)
         /\ requests' \in Seq(RequestMessage)
         /\ RequestsTimely'
<1>1. requests \in Seq(RequestMessage) /\ RequestsTimely
  BY InvariantParts DEF TypeOK
<1>2. /\ Head(requests) = requests[1] /\ 1 \in 1 .. Len(requests)
      /\ Tail(requests) \in Seq(RequestMessage)
      /\ \A i \in 1 .. Len(Tail(requests)) :
           i + 1 \in 1 .. Len(requests) /\ Tail(requests)[i] = requests[i + 1]
  BY <1>1, TailHolds
<1>3. requests[1] \in RequestMessage
  BY <1>1, <1>2
<1>4. RequestsTimely'
  <2> SUFFICES ASSUME NEW i \in 1 .. Len(Tail(requests))
               PROVE  RequestTimely(Tail(requests)[i], now, enabled, released)
    BY DEF RequestsTimely
  <2> QED
    BY <1>1, <1>2 DEF RequestsTimely
<1> QED
  BY <1>1, <1>2, <1>3, <1>4 DEF RequestsTimely

\* A message that reaches the modules in time keeps their own deadlines.
LEMMA CommandTaken ==
  ASSUME WireInvariant, TakeCommand
  PROVE  WireInvariant'
<1> USE InvariantParts
<1> DEFINE m == Head(commands)
<1>1. /\ commands # << >> /\ commands' = Tail(commands) /\ engaged' = engaged
      /\ UNCHANGED << now, last_joy, rested, enabled, sent, fired, requests, released, fault >>
  BY DEF TakeCommand, switchVars
<1>2. /\ m \in CommandMessage /\ CommandTimely(m, now, enabled, released)
      /\ commands' \in Seq(CommandMessage) /\ CommandsTimely'
  BY <1>1, CommandGone
<1>3. AtOnce
  BY <1>1 DEF AtOnce, TypeOK
<1>4. /\ m.at \in Nat /\ m.joy \in Moment /\ m.joy \in Nat
      /\ now \in Nat /\ now \in 0 .. now /\ released \in Nat
  <2>1. m.at \in Moment /\ m.joy \in Moment
    BY <1>2 DEF CommandMessage
  <2> HIDE DEF m
  <2>2. m.at \in Nat /\ m.joy \in Nat
    BY <2>1, ConstantsNat
  <2> QED
    BY <2>1, <2>2, TimesNat
<1>5. \/ engaged /\ heard' = now /\ followed' = m.joy
      \/ ~ engaged /\ heard' = heard /\ followed' = followed
  BY DEF TakeCommand, Heed
<1>6. heard' \in 0 .. now' /\ followed' \in Moment
  BY <1>1, <1>4, <1>5 DEF TypeOK
<1>7. TypeOK'
  BY <1>1, <1>2, <1>6 DEF TypeOK, CommandMessage, RequestMessage
<1>8. ModulesTimely'
  <2>1. CASE engaged
    <3>1. /\ now <= m.at + Latency /\ m.at <= m.joy + JoyTimeout
          /\ enabled \/ m.at <= released
      BY <1>2 DEF CommandTimely
    <3> HIDE DEF m
    <3>2. heard' = now /\ followed' = m.joy
      BY <1>5, <2>1
    <3>3. /\ now <= now + ModuleTimeout
          /\ now <= m.joy + JoyTimeout + Latency
          /\ enabled \/ now <= released + Latency
      BY <1>4, <3>1, ConstantsNat
    <3> QED
      BY <1>1, <3>2, <3>3 DEF ModulesTimely
  <2>2. CASE ~ engaged
    BY <1>1, <2>2 DEF ModulesTimely
  <2> QED
    BY <2>1, <2>2
<1> QED
  BY <1>1, <1>2, <1>3, <1>7, <1>8, RequestsStay

LEMMA RequestTaken ==
  ASSUME WireInvariant, TakeRequest
  PROVE  WireInvariant'
<1> USE InvariantParts
<1> DEFINE m == Head(requests)
<1>1. /\ requests # << >> /\ requests' = Tail(requests) /\ engaged' = m.enable
      /\ UNCHANGED << now, last_joy, rested, enabled, sent, fired, commands, released, fault >>
  BY DEF TakeRequest, Switch, switchVars
<1>2. /\ m \in RequestMessage /\ RequestTimely(m, now, enabled, released)
      /\ requests' \in Seq(RequestMessage) /\ RequestsTimely'
  BY <1>1, RequestGone
<1>3. AtOnce
  BY <1>1 DEF AtOnce, TypeOK
<1>4. /\ m.at \in Nat /\ m.at \in Moment /\ m.enable \in BOOLEAN
      /\ now \in Nat /\ now \in 0 .. now /\ released \in Nat
  <2>1. m.at \in Moment /\ m.enable \in BOOLEAN
    BY <1>2 DEF RequestMessage
  <2> HIDE DEF m
  <2>2. m.at \in Nat
    BY <2>1, ConstantsNat
  <2> QED
    BY <2>1, <2>2, TimesNat
<1>5. \/ m.enable /\ ~ engaged /\ heard' = now /\ followed' = m.at
      \/ ~ (m.enable /\ ~ engaged) /\ heard' = heard /\ followed' = followed
  BY DEF TakeRequest, Switch, Heed
<1>6. heard' \in 0 .. now' /\ followed' \in Moment
  BY <1>1, <1>4, <1>5 DEF TypeOK
<1>7. TypeOK'
  BY <1>1, <1>2, <1>4, <1>6 DEF TypeOK, CommandMessage, RequestMessage
<1>8. ModulesTimely'
  <2>1. CASE m.enable /\ ~ engaged
    <3>1. /\ now <= m.at + Latency
          /\ enabled \/ m.at <= released
      BY <1>2, <2>1 DEF RequestTimely
    <3> HIDE DEF m
    <3>2. heard' = now /\ followed' = m.at
      BY <1>5, <2>1
    <3>3. /\ now <= now + ModuleTimeout
          /\ now <= m.at + JoyTimeout + Latency
          /\ enabled \/ now <= released + Latency
      BY <1>4, <3>1, ConstantsNat
    <3> QED
      BY <1>1, <3>2, <3>3 DEF ModulesTimely
  <2>2. CASE m.enable /\ engaged
    BY <1>1, <1>5, <2>2 DEF ModulesTimely
  <2>3. CASE ~ m.enable
    BY <1>1, <2>3 DEF ModulesTimely
  <2> QED
    BY <2>1, <2>2, <2>3
<1> QED
  BY <1>1, <1>2, <1>3, <1>7, <1>8, CommandsStay

LEMMA LossStep ==
  ASSUME WireInvariant, CommandLost \/ RequestLost
  PROVE  WireInvariant'
<1> USE InvariantParts
<1>1. UNCHANGED << now, last_joy, rested, enabled, sent, fired, moduleVars, released >>
  BY DEF CommandLost, RequestLost, switchVars
<1>2. AtOnce
  BY <1>1 DEF AtOnce, TypeOK
<1>3. fault' = TRUE
  BY DEF CommandLost, RequestLost
<1>4. CASE CommandLost
  <2>1. requests' = requests /\ commands' \in Seq(CommandMessage) /\ CommandsTimely'
    BY <1>1, <1>4, CommandGone DEF CommandLost
  <2>2. TypeOK'
    BY <1>1, <1>3, <2>1 DEF TypeOK, CommandMessage, RequestMessage, moduleVars
  <2> QED
    BY <1>1, <1>2, <2>1, <2>2, RequestsStay, ModulesStay
<1>5. CASE RequestLost
  <2>1. commands' = commands /\ requests' \in Seq(RequestMessage) /\ RequestsTimely'
    BY <1>1, <1>5, RequestGone DEF RequestLost
  <2>2. TypeOK'
    BY <1>1, <1>3, <2>1 DEF TypeOK, CommandMessage, RequestMessage, moduleVars
  <2> QED
    BY <1>1, <1>2, <2>1, <2>2, CommandsStay, ModulesStay
<1> QED
  BY <1>4, <1>5

LEMMA DisableStep ==
  ASSUME WireInvariant, ModulesDisable
  PROVE  WireInvariant'
<1> USE InvariantParts
<1>1. /\ engaged' = FALSE
      /\ UNCHANGED << now, last_joy, rested, enabled, sent, fired, commands,
                      requests, heard, followed, released, fault >>
  BY DEF ModulesDisable, switchVars, inboxVars
<1>2. AtOnce
  BY <1>1 DEF AtOnce, TypeOK
<1>3. TypeOK'
  BY <1>1 DEF TypeOK, CommandMessage, RequestMessage
<1>4. ModulesTimely'
  BY <1>1 DEF ModulesTimely
<1> QED
  BY <1>1, <1>2, <1>3, <1>4, CommandsStay, RequestsStay

\* Time passes only while nothing is due.
LEMMA TickStep ==
  ASSUME WireInvariant, Tick
  PROVE  WireInvariant'
<1> USE InvariantParts
<1>1. /\ now < MaxTime /\ now' = now + 1
      /\ ~ Overdue(commands) /\ ~ Overdue(requests) /\ ~ ModulesDue
      /\ UNCHANGED << last_joy, rested, enabled, sent, fired, commands, requests,
                      engaged, heard, followed, released, fault >>
  BY DEF Tick, Clock, inboxVars, moduleVars
<1>2. now \in Nat /\ heard \in Nat /\ heard <= now
  BY ConstantsNat DEF TypeOK
<1>3. now' \in 1 .. MaxTime /\ heard' \in 0 .. now'
  BY <1>1, <1>2, ConstantsNat
<1>4. TypeOK'
  BY <1>1, <1>3 DEF TypeOK, CommandMessage, RequestMessage
<1>5. CommandsTimely'
  <2> SUFFICES ASSUME NEW i \in 1 .. Len(commands)
               PROVE  CommandTimely(commands[i], now + 1, enabled, released)
    BY <1>1 DEF CommandsTimely
  <2>1. commands[i] \in CommandMessage
    <3>1. commands \in Seq(CommandMessage)
      BY DEF TypeOK
    <3> QED
      BY <3>1
  <2>2. commands[i].at \in Nat
    BY <2>1, ConstantsNat DEF CommandMessage
  <2>3. ~ (now - commands[i].at >= Latency)
    BY <1>1 DEF Overdue
  <2>4. CommandTimely(commands[i], now, enabled, released)
    BY DEF CommandsTimely
  <2> QED
    BY <1>2, <2>2, <2>3, <2>4, ConstantsNat DEF CommandTimely
<1>6. RequestsTimely'
  <2> SUFFICES ASSUME NEW i \in 1 .. Len(requests)
               PROVE  RequestTimely(requests[i], now + 1, enabled, released)
    BY <1>1 DEF RequestsTimely
  <2>1. requests[i] \in RequestMessage
    <3>1. requests \in Seq(RequestMessage)
      BY DEF TypeOK
    <3> QED
      BY <3>1
  <2>2. requests[i].at \in Nat
    BY <2>1, ConstantsNat DEF RequestMessage
  <2>3. ~ (now - requests[i].at >= Latency)
    BY <1>1 DEF Overdue
  <2>4. RequestTimely(requests[i], now, enabled, released)
    BY DEF RequestsTimely
  <2> QED
    BY <1>2, <2>2, <2>3, <2>4, ConstantsNat DEF RequestTimely
<1>7. ModulesTimely'
  <2>1. engaged => now + 1 <= heard + ModuleTimeout
    BY <1>1, <1>2, ConstantsNat DEF ModulesDue
  <2> QED
    BY <1>1, <2>1 DEF ModulesTimely
<1> QED
  BY <1>4, <1>5, <1>6, <1>7

LEMMA NextInvariant == WireInvariant /\ [Next]_vars => WireInvariant'
<1> SUFFICES ASSUME WireInvariant, [Next]_vars
             PROVE  WireInvariant'
  OBVIOUS
<1>1. CASE Teleop
  BY <1>1, JoyHeardStep, RequestStep, CommandStep, DeathStep DEF Teleop
<1>2. CASE Car
  BY <1>2, CommandTaken, RequestTaken, LossStep, DisableStep DEF Car
<1>3. CASE Tick
  BY <1>3, TickStep
<1>4. CASE UNCHANGED vars
  BY <1>4, JoyHeardStep
<1> QED
  BY <1>1, <1>2, <1>3, <1>4 DEF Next

-----------------------------------------------------------------------------
\* Every message that waits, and every one the modules have heeded, is in time
\* and no younger than the latest release: setEnabled(), publishCommands() and
\* the callbacks of RosToOscc for the two kinds of messages, in any order.
THEOREM InTime == Spec => []WireInvariant
BY InitInvariant, NextInvariant, PTL DEF Spec

\* Whatever is lost, late or out of order on its way from joyCallback() to the
\* OSCC API, the car never follows a pad that was last heard of longer ago than
\* the three time limits together.
THEOREM RecentlyFollowed == Spec => []FollowedIsRecent
<1>1. WireInvariant => FollowedIsRecent
  <2> SUFFICES ASSUME WireInvariant, engaged
               PROVE  now - followed <= JoyTimeout + Latency + ModuleTimeout
    BY DEF FollowedIsRecent
  <2>1. now \in Nat /\ heard \in Nat /\ followed \in Nat
    BY InvariantParts, TimesNat
  <2>2. now <= heard + ModuleTimeout /\ heard <= followed + JoyTimeout + Latency
    BY InvariantParts DEF ModulesTimely
  <2> QED
    BY <2>1, <2>2, ConstantsNat
<1> QED
  BY <1>1, InTime, PTL

\* After setEnabled(false), by a button or the watchdog, and after a crash of
\* the teleop, the modules stop within the two time limits that remain.
THEOREM ReleaseStopsAlways == Spec => []ReleaseStops
<1>1. WireInvariant => ReleaseStops
  <2> SUFFICES ASSUME WireInvariant, ~ enabled, engaged
               PROVE  now - released <= Latency + ModuleTimeout
    BY DEF ReleaseStops
  <2>1. now \in Nat /\ heard \in Nat /\ released \in Nat
    BY InvariantParts, TimesNat
  <2>2. now <= heard + ModuleTimeout /\ heard <= released + Latency
    BY InvariantParts DEF ModulesTimely
  <2> QED
    BY <2>1, <2>2, ConstantsNat
<1> QED
  BY <1>1, InTime, PTL

-----------------------------------------------------------------------------
(* The modules never time out while nothing is lost. *)

TimerOK == fired <= now /\ now <= fired + Period

\* The last request that waits, or else the modules, are what the teleop wants.
LatestWins ==
  ~ fault => /\ requests # << >> => requests[Len(requests)].enable = enabled
             /\ requests = << >> /\ engaged => enabled

CommandComing == \E i \in 1 .. Len(commands) : commands[i].at <= heard + Period
DisableComing ==
  \E i \in 1 .. Len(requests) : ~ requests[i].enable /\ requests[i].at <= heard + Period

\* Within a period of the last message the modules heeded the timer will have
\* fired, or a command or a disable has been sent and is on its way.
WordIsComing ==
  engaged /\ ~ fault => (enabled /\ fired <= heard) \/ CommandComing \/ DisableComing

AliveInvariant == WireInvariant /\ TimerOK /\ LatestWins /\ WordIsComing

LEMMA AppendHolds ==
  ASSUME NEW S, NEW w \in Seq(S), NEW v \in S
  PROVE  /\ Len(w) \in Nat /\ Len(Append(w, v)) = Len(w) + 1 /\ Append(w, v) # << >>
         /\ \A i \in 1 .. Len(w) : Append(w, v)[i] = w[i]
         /\ Append(w, v)[Len(w) + 1] = v
OBVIOUS

\* What remains of the requests when the first of them is gone.
LEMMA LatestStays ==
  ASSUME NEW S, NEW w \in Seq(S), w # << >>
  PROVE  /\ Tail(w) # << >> => Tail(w)[Len(Tail(w))] = w[Len(w)]
         /\ Tail(w) = << >> => Head(w) = w[Len(w)]
<1>1. Len(w) \in Nat /\ Len(w) > 0 /\ Head(w) = w[1]
  OBVIOUS
<1>2. PICK t \in Seq(S) : /\ t = Tail(w) /\ Len(t) + 1 = Len(w)
                          /\ \A i \in 1 .. Len(t) : t[i] = w[i + 1]
  <2>1. /\ Tail(w) \in Seq(S) /\ Len(Tail(w)) + 1 = Len(w)
        /\ \A i \in 1 .. Len(Tail(w)) : Tail(w)[i] = w[i + 1]
    BY <1>1
  <2> QED
    BY <2>1, Zenon
<1>3. Len(t) \in Nat
  BY <1>2
<1>4. ASSUME t # << >>
      PROVE  t[Len(t)] = w[Len(w)]
  <2>1. Len(t) \in 1 .. Len(t)
    BY <1>4
  <2> QED
    BY <1>2, <2>1
<1>5. ASSUME t = << >>
      PROVE  Head(w) = w[Len(w)]
  <2>1. Len(t) = 0
    BY <1>5
  <2> QED
    BY <1>1, <1>2, <2>1
<1> QED
  BY <1>2, <1>4, <1>5, Zenon

LEMMA AliveFacts ==
  ASSUME WireInvariant
  PROVE  /\ now \in Nat /\ fired \in Nat /\ heard \in Nat /\ heard <= now /\ Period \in Nat
         /\ requests \in Seq(RequestMessage) /\ commands \in Seq(CommandMessage)
<1>1. TypeOK
  BY InvariantParts
<1>2. fired \in Moment
  BY <1>1 DEF TypeOK
<1> QED
  BY <1>1, <1>2, TimesNat, ConstantsNat, WireAssumption DEF TypeOK

LEMMA RequestAlive ==
  ASSUME AliveInvariant, NEW e \in BOOLEAN, PostRequest(e), enabled' = e,
         UNCHANGED << now, commands, moduleVars >>,
         fired' = fired \/ (~ e /\ fired' = now)
  PROVE  TimerOK' /\ LatestWins' /\ WordIsComing'
<1> DEFINE m == [at |-> now, enable |-> e]
<1>1. /\ now \in Nat /\ fired \in Nat /\ heard \in Nat /\ Period \in Nat
      /\ requests \in Seq(RequestMessage) /\ now \in Moment
  BY AliveFacts, InvariantParts, ConstantsNat DEF AliveInvariant, TypeOK, Moment
<1>2. TimerOK'
  BY <1>1 DEF AliveInvariant, TimerOK
<1>3. m \in RequestMessage /\ m.at = now /\ m.enable = e
  BY <1>1 DEF RequestMessage
<1>4. requests' = Post(requests, m) /\ fault' = (fault \/ Full(requests))
  BY DEF PostRequest
<1> HIDE DEF m
<1> SUFFICES ASSUME ~ fault'
             PROVE  LatestWins' /\ WordIsComing'
  BY <1>2 DEF LatestWins, WordIsComing
<1>5. ~ fault /\ requests' = Append(requests, m)
  BY <1>4 DEF Post
<1>6. /\ Len(requests) \in Nat /\ Len(requests') = Len(requests) + 1 /\ requests' # << >>
      /\ \A i \in 1 .. Len(requests) : requests'[i] = requests[i]
      /\ requests'[Len(requests) + 1] = m
  BY <1>1, <1>3, <1>5, AppendHolds
<1>7. LatestWins'
  BY <1>3, <1>6 DEF LatestWins
<1>8. WordIsComing'
  <2> SUFFICES ASSUME engaged
               PROVE  (enabled' /\ fired' <= heard) \/ CommandComing' \/ DisableComing'
    BY DEF WordIsComing, moduleVars
  <2>1. CASE CommandComing
    BY <2>1 DEF CommandComing, moduleVars
  <2>2. CASE DisableComing
    <3>1. PICK i \in 1 .. Len(requests) : ~ requests[i].enable /\ requests[i].at <= heard + Period
      BY <2>2 DEF DisableComing
    <3>2. i \in 1 .. Len(requests') /\ requests'[i] = requests[i] /\ heard' = heard
      BY <1>6 DEF moduleVars
    <3> QED
      BY <3>1, <3>2 DEF DisableComing
  <2>3. CASE enabled /\ fired <= heard
    <3>1. CASE e
      BY <2>3, <3>1
    <3>2. CASE ~ e
      <4>1. now <= heard + Period
        BY <1>1, <2>3 DEF AliveInvariant, TimerOK
      <4>2. Len(requests) + 1 \in 1 .. Len(requests') /\ heard' = heard
        BY <1>6 DEF moduleVars
      <4> QED
        BY <1>3, <1>6, <3>2, <4>1, <4>2 DEF DisableComing
    <3> QED
      BY <3>1, <3>2
  <2> QED
    BY <1>5, <2>1, <2>2, <2>3 DEF AliveInvariant, WordIsComing
<1> QED
  BY <1>7, <1>8

LEMMA CommandAlive ==
  ASSUME AliveInvariant, TimerCommands
  PROVE  TimerOK' /\ LatestWins' /\ WordIsComing'
<1> DEFINE m == [at |-> now, joy |-> last_joy]
<1>1. /\ now \in Nat /\ fired \in Nat /\ heard \in Nat /\ Period \in Nat
      /\ commands \in Seq(CommandMessage) /\ now \in Moment /\ last_joy \in Moment
  BY AliveFacts, InvariantParts, ConstantsNat DEF AliveInvariant, TypeOK, Moment
<1>2. /\ now = fired + Period /\ fired' = now /\ now' = now
      /\ enabled' = enabled /\ UNCHANGED << requests, moduleVars >>
      /\ commands' = Post(commands, m) /\ fault' = (fault \/ Full(commands))
  BY DEF TimerCommands, TimerFires, NextFiring, Command
<1>3. m \in CommandMessage /\ m.at = now
  BY <1>1 DEF CommandMessage
<1> HIDE DEF m
<1>4. TimerOK'
  BY <1>1, <1>2 DEF TimerOK
<1> SUFFICES ASSUME ~ fault'
             PROVE  LatestWins' /\ WordIsComing'
  BY <1>4 DEF LatestWins, WordIsComing
<1>5. ~ fault /\ commands' = Append(commands, m)
  BY <1>2 DEF Post
<1>6. LatestWins'
  BY <1>2, <1>5 DEF AliveInvariant, LatestWins, moduleVars
<1>7. /\ Len(commands) \in Nat /\ Len(commands') = Len(commands) + 1
      /\ \A i \in 1 .. Len(commands) : commands'[i] = commands[i]
      /\ commands'[Len(commands) + 1] = m
  BY <1>1, <1>3, <1>5, AppendHolds
<1>8. WordIsComing'
  <2> SUFFICES ASSUME engaged
               PROVE  CommandComing' \/ DisableComing'
    BY <1>2 DEF WordIsComing, moduleVars
  <2>1. CASE CommandComing
    <3>1. PICK i \in 1 .. Len(commands) : commands[i].at <= heard + Period
      BY <2>1 DEF CommandComing
    <3>2. i \in 1 .. Len(commands') /\ commands'[i] = commands[i] /\ heard' = heard
      BY <1>2, <1>7 DEF moduleVars
    <3> QED
      BY <3>1, <3>2 DEF CommandComing
  <2>2. CASE DisableComing
    BY <1>2, <2>2 DEF DisableComing, moduleVars
  <2>3. CASE enabled /\ fired <= heard
    <3>1. now <= heard + Period
      BY <1>1, <1>2, <2>3
    <3>2. Len(commands) + 1 \in 1 .. Len(commands') /\ heard' = heard
      BY <1>2, <1>7 DEF moduleVars
    <3> QED
      BY <1>3, <1>7, <3>1, <3>2 DEF CommandComing
  <2> QED
    BY <1>5, <2>1, <2>2, <2>3 DEF AliveInvariant, WordIsComing
<1> QED
  BY <1>6, <1>8

\* A disable waits last if the modules have yet to be told of it.
LEMMA LastIsDisable ==
  ASSUME WireInvariant, ~ enabled, requests # << >>,
         requests[Len(requests)].enable = enabled
  PROVE  \E i \in 1 .. Len(requests) :
           i = Len(requests) /\ ~ requests[i].enable /\ requests[i].at <= now + Period
<1>1. requests \in Seq(RequestMessage) /\ now \in Nat /\ Period \in Nat
  BY AliveFacts
<1>2. Len(requests) \in 1 .. Len(requests)
  BY <1>1
<1>3. requests[Len(requests)] \in RequestMessage
  BY <1>1, <1>2
<1>4. requests[Len(requests)].at \in Nat
  BY <1>3, ConstantsNat DEF RequestMessage
<1>5. requests[Len(requests)].at <= now
  BY <1>2, InvariantParts DEF RequestsTimely, RequestTimely
<1>6. requests[Len(requests)].at <= now + Period
  BY <1>1, <1>4, <1>5
<1> QED
  BY <1>2, <1>6

LEMMA CommandTakenAlive ==
  ASSUME AliveInvariant, TakeCommand
  PROVE  TimerOK' /\ LatestWins' /\ WordIsComing'
<1>1. /\ now \in Nat /\ fired \in Nat
      /\ UNCHANGED << now, enabled, fired, requests, engaged, fault >>
  BY AliveFacts DEF AliveInvariant, TakeCommand, switchVars
<1>2. TimerOK' /\ LatestWins'
  BY <1>1 DEF AliveInvariant, TimerOK, LatestWins
<1>3. ASSUME engaged, ~ fault
      PROVE  (enabled /\ fired <= heard') \/ DisableComing'
  <2>1. heard' = now
    BY <1>3 DEF TakeCommand, Heed
  <2>2. CASE enabled
    BY <2>1, <2>2 DEF AliveInvariant, TimerOK
  <2>3. CASE ~ enabled
    <3>1. requests # << >> /\ requests[Len(requests)].enable = enabled
      BY <1>3, <2>3 DEF AliveInvariant, LatestWins
    <3>2. \E i \in 1 .. Len(requests) :
            i = Len(requests) /\ ~ requests[i].enable /\ requests[i].at <= now + Period
      BY <2>3, <3>1, LastIsDisable DEF AliveInvariant
    <3> QED
      BY <1>1, <2>1, <3>2 DEF DisableComing
  <2> QED
    BY <2>2, <2>3
<1> QED
  BY <1>1, <1>2, <1>3 DEF WordIsComing

LEMMA RequestTakenAlive ==
  ASSUME AliveInvariant, TakeRequest
  PROVE  TimerOK' /\ LatestWins' /\ WordIsComing'
<1>1. /\ requests # << >> /\ requests' = Tail(requests) /\ engaged' = Head(requests).enable
      /\ UNCHANGED << now, enabled, fired, commands, fault >>
      /\ requests \in Seq(RequestMessage)
  BY AliveFacts DEF AliveInvariant, TakeRequest, Switch, switchVars
<1>2. TimerOK'
  BY <1>1 DEF AliveInvariant, TimerOK
<1> SUFFICES ASSUME ~ fault
             PROVE  LatestWins' /\ WordIsComing'
  BY <1>1, <1>2 DEF LatestWins, WordIsComing
<1>3. requests[Len(requests)].enable = enabled
  BY <1>1 DEF AliveInvariant, LatestWins
<1>4. /\ requests' # << >> => requests'[Len(requests')].enable = enabled
      /\ requests' = << >> => Head(requests).enable = enabled
  BY <1>1, <1>3, LatestStays
<1>5. LatestWins'
  BY <1>1, <1>4 DEF LatestWins
<1>6. ASSUME engaged', engaged
      PROVE  (enabled /\ fired <= heard') \/ CommandComing' \/ DisableComing'
  <2>1. heard' = heard /\ Head(requests).enable
    BY <1>1, <1>6 DEF TakeRequest, Switch
  <2>2. CASE enabled /\ fired <= heard
    BY <2>1, <2>2
  <2>3. CASE CommandComing
    BY <1>1, <2>1, <2>3 DEF CommandComing
  <2>4. CASE DisableComing
    <3>1. PICK i \in 1 .. Len(requests) : ~ requests[i].enable /\ requests[i].at <= heard + Period
      BY <2>4 DEF DisableComing
    <3>2. /\ Head(requests) = requests[1] /\ Len(requests) \in Nat
          /\ Len(Tail(requests)) = Len(requests) - 1
          /\ \A k \in 1 .. Len(Tail(requests)) : Tail(requests)[k] = requests[k + 1]
      BY <1>1
    <3>3. i # 1
      BY <2>1, <3>1, <3>2
    <3>4. i - 1 \in 1 .. Len(Tail(requests)) /\ (i - 1) + 1 = i
      BY <3>2, <3>3
    <3>5. Tail(requests)[i - 1] = requests[i]
      BY <3>2, <3>4
    <3> QED
      BY <1>1, <2>1, <3>1, <3>4, <3>5 DEF DisableComing
  <2> QED
    BY <1>6, <2>2, <2>3, <2>4 DEF AliveInvariant, WordIsComing
<1>7. ASSUME engaged', ~ engaged
      PROVE  (enabled /\ fired <= heard') \/ DisableComing'
  <2>1. heard' = now /\ Head(requests).enable
    BY <1>1, <1>7 DEF TakeRequest, Switch, Heed
  <2>2. CASE enabled
    BY <2>1, <2>2 DEF AliveInvariant, TimerOK
  <2>3. CASE ~ enabled
    <3>1. requests' # << >> /\ requests'[Len(requests')].enable = enabled
      BY <1>4, <2>1, <2>3
    <3>2. requests' \in Seq(RequestMessage) /\ RequestsTimely'
      BY <1>1, RequestTaken, InvariantParts DEF AliveInvariant, TypeOK
    <3>3. Len(requests') \in 1 .. Len(requests')
      BY <3>1, <3>2
    <3>4. requests'[Len(requests')] \in RequestMessage
      BY <3>2, <3>3
    <3>5. requests'[Len(requests')].at \in Nat
      BY <3>4, ConstantsNat DEF RequestMessage
    <3>6. requests'[Len(requests')].at <= now
      BY <1>1, <3>2, <3>3 DEF RequestsTimely, RequestTimely
    <3>7. requests'[Len(requests')].at <= now + Period
      BY <3>5, <3>6, AliveFacts DEF AliveInvariant
    <3> QED
      BY <2>1, <2>3, <3>1, <3>3, <3>7 DEF DisableComing
  <2> QED
    BY <2>2, <2>3
<1>8. WordIsComing'
  BY <1>1, <1>6, <1>7 DEF WordIsComing
<1> QED
  BY <1>5, <1>8

\* The remaining steps: a loss or a crash ends the promise, the modules may
\* stop, and time does not outrun the timer.
LEMMA RestAlive ==
  ASSUME AliveInvariant,
         JoyHeard \/ TimerIdles \/ TeleopDies \/ CommandLost \/ RequestLost
           \/ ModulesDisable \/ Tick \/ UNCHANGED vars
  PROVE  TimerOK' /\ LatestWins' /\ WordIsComing'
<1>1. now \in Nat /\ fired \in Nat /\ Period \in Nat
  BY AliveFacts DEF AliveInvariant
<1>2. CASE JoyHeard \/ UNCHANGED vars
  <2>1. UNCHANGED << now, enabled, fired, requests, commands, engaged, heard, fault >>
    BY <1>2 DEF JoyHeard, Hold, inboxVars, moduleVars, vars, switchVars
  <2> QED
    BY <2>1 DEF AliveInvariant, TimerOK, LatestWins, WordIsComing, CommandComing, DisableComing
<1>3. CASE TimerIdles
  <2>1. ~ enabled /\ fired' = now
        /\ UNCHANGED << now, enabled, requests, commands, engaged, heard, fault >>
    BY <1>3 DEF TimerIdles, TimerFires, inboxVars, moduleVars, switchVars
  <2>2. TimerOK'
    BY <1>1, <2>1 DEF TimerOK
  <2> QED
    BY <2>1, <2>2 DEF AliveInvariant, LatestWins, WordIsComing, CommandComing, DisableComing
<1>4. CASE TeleopDies \/ CommandLost \/ RequestLost
  <2>1. fault' /\ now' = now /\ fired' \in {fired, now}
    BY <1>4 DEF TeleopDies, CommandLost, RequestLost, switchVars
  <2>2. CASE fired' = fired
    BY <2>1, <2>2 DEF AliveInvariant, TimerOK, LatestWins, WordIsComing
  <2>3. CASE fired' = now
    <3>1. TimerOK'
      BY <1>1, <2>1, <2>3 DEF TimerOK
    <3> QED
      BY <2>1, <3>1 DEF LatestWins, WordIsComing
  <2> QED
    BY <2>1, <2>2, <2>3
<1>5. CASE ModulesDisable
  <2>1. ~ engaged' /\ UNCHANGED << now, enabled, fired, requests, fault >>
    BY <1>5 DEF ModulesDisable, inboxVars, switchVars
  <2> QED
    BY <2>1 DEF AliveInvariant, TimerOK, LatestWins, WordIsComing
<1>6. CASE Tick
  <2>1. /\ now < fired + Period /\ now' = now + 1
        /\ UNCHANGED << enabled, fired, requests, commands, engaged, heard, fault >>
    BY <1>6 DEF Tick, NextFiring, Clock, inboxVars, moduleVars
  <2>2. TimerOK'
    BY <1>1, <2>1 DEF AliveInvariant, TimerOK
  <2> QED
    BY <2>1, <2>2 DEF AliveInvariant, LatestWins, WordIsComing, CommandComing, DisableComing
<1> QED
  BY <1>2, <1>3, <1>4, <1>5, <1>6

LEMMA AliveNext == AliveInvariant /\ [Next]_vars => AliveInvariant'
<1> SUFFICES ASSUME AliveInvariant, [Next]_vars
             PROVE  AliveInvariant'
  OBVIOUS
<1>1. WireInvariant'
  BY NextInvariant DEF AliveInvariant
<1>2. ASSUME NEW e \in BOOLEAN, JoyRequests(e)
      PROVE  TimerOK' /\ LatestWins' /\ WordIsComing'
  <2>1. /\ PostRequest(e) /\ enabled' = e /\ fired' = fired
        /\ UNCHANGED << now, commands, moduleVars >>
    BY <1>2 DEF JoyRequests, Press
  <2> QED
    BY <2>1, RequestAlive
<1>3. ASSUME TimerReleases
      PROVE  TimerOK' /\ LatestWins' /\ WordIsComing'
  <2>1. /\ PostRequest(FALSE) /\ enabled' = FALSE /\ fired' = now
        /\ UNCHANGED << now, commands, moduleVars >>
    BY <1>3 DEF TimerReleases, TimerFires, Release
  <2> QED
    BY <2>1, RequestAlive, Zenon
<1>4. TimerOK' /\ LatestWins' /\ WordIsComing'
  BY <1>2, <1>3, CommandAlive, CommandTakenAlive, RequestTakenAlive, RestAlive
  DEF Next, Teleop, Car
<1> QED
  BY <1>1, <1>4 DEF AliveInvariant

LEMMA AliveInit == Init => AliveInvariant
<1> SUFFICES ASSUME Init
             PROVE  AliveInvariant
  OBVIOUS
<1>1. WireInvariant
  BY InitInvariant
<1>2. TimerOK
  BY <1>1, AliveFacts DEF Init, TimerOK
<1>3. LatestWins /\ WordIsComing
  BY DEF Init, LatestWins, WordIsComing
<1> QED
  BY <1>1, <1>2, <1>3 DEF AliveInvariant

\* With a timer faster than the modules' 200 ms less the latency (the 5 Hz of
\* roscco_teleop.cpp:70) control is never lost by a time-out of the modules,
\* unless a message is lost or the teleop dies.
THEOREM NeverTimesOut == Spec => []NoNuisanceTimeout
<1>1. AliveInvariant => NoNuisanceTimeout
  <2> SUFFICES ASSUME AliveInvariant, Period + Latency < ModuleTimeout, ~ fault, engaged
               PROVE  ~ (now - heard >= ModuleTimeout)
    BY DEF NoNuisanceTimeout, ModulesDue
  <2>1. /\ now \in Nat /\ fired \in Nat /\ heard \in Nat /\ Period \in Nat
        /\ Latency \in Nat /\ ModuleTimeout \in Nat
        /\ requests \in Seq(RequestMessage) /\ commands \in Seq(CommandMessage)
    BY AliveFacts, ConstantsNat DEF AliveInvariant
  <2>2. ASSUME NEW t \in Nat, t <= heard + Period, now <= t + Latency
        PROVE  ~ (now - heard >= ModuleTimeout)
    BY <2>1, <2>2
  <2>3. CASE enabled /\ fired <= heard
    BY <2>1, <2>3 DEF AliveInvariant, TimerOK
  <2>4. CASE CommandComing
    <3>1. PICK i \in 1 .. Len(commands) : commands[i].at <= heard + Period
      BY <2>4 DEF CommandComing
    <3>2. commands[i] \in CommandMessage
      BY <2>1
    <3>3. commands[i].at \in Nat
      BY <3>2, ConstantsNat DEF CommandMessage
    <3>4. now <= commands[i].at + Latency
      BY InvariantParts DEF AliveInvariant, CommandsTimely, CommandTimely
    <3> QED
      BY <2>2, <3>1, <3>3, <3>4
  <2>5. CASE DisableComing
    <3>1. PICK i \in 1 .. Len(requests) : requests[i].at <= heard + Period
      BY <2>5 DEF DisableComing
    <3>2. requests[i] \in RequestMessage
      BY <2>1
    <3>3. requests[i].at \in Nat
      BY <3>2, ConstantsNat DEF RequestMessage
    <3>4. now <= requests[i].at + Latency
      BY InvariantParts DEF AliveInvariant, RequestsTimely, RequestTimely
    <3> QED
      BY <2>2, <3>1, <3>3, <3>4
  <2> QED
    BY <2>3, <2>4, <2>5 DEF AliveInvariant, WordIsComing
<1> QED
  BY <1>1, AliveInit, AliveNext, PTL DEF Spec

-----------------------------------------------------------------------------
(* A silent pad stops the car. *)

\* While control is enabled the pad was held when the timer last fired, or has
\* been heard of since.
WatchdogOK == enabled => fired <= last_joy + JoyTimeout

\* A disable that waits was published when the watchdog found the pad silent,
\* or has seen the pad heard of since.
DisablesPrompt ==
  ~ fault => \A i \in 1 .. Len(requests) :
    ~ requests[i].enable => requests[i].at <= last_joy + JoyTimeout + Period

SilenceInvariant == AliveInvariant /\ WatchdogOK /\ DisablesPrompt

LEMMA SilenceFacts ==
  ASSUME AliveInvariant
  PROVE  /\ now \in Nat /\ fired \in Nat /\ last_joy \in Nat
         /\ fired <= now /\ now <= fired + Period
         /\ JoyTimeout \in Nat /\ Period \in Nat /\ Latency \in Nat
         /\ requests \in Seq(RequestMessage)
         /\ \A i \in 1 .. Len(requests) :
              /\ requests[i].at \in Nat
              /\ requests[i].at <= now /\ now <= requests[i].at + Latency
<1>1. TypeOK /\ requests \in Seq(RequestMessage)
  BY AliveFacts, InvariantParts DEF AliveInvariant
<1>2. last_joy \in Nat
  BY <1>1, ConstantsNat DEF TypeOK
<1>3. \A m \in RequestMessage : m.at \in Nat
  BY ConstantsNat DEF RequestMessage
<1>4. \A i \in 1 .. Len(requests) : requests[i].at \in Nat
  BY <1>1, <1>3
<1>5. \A i \in 1 .. Len(requests) : requests[i].at <= now /\ now <= requests[i].at + Latency
  BY InvariantParts DEF AliveInvariant, RequestsTimely, RequestTimely
<1> QED
  BY <1>1, <1>2, <1>4, <1>5, AliveFacts, ConstantsNat DEF AliveInvariant, TimerOK

\* Steps at which the pad is heard of, and steps that leave it and the disables alone.
LEMMA HeardStep ==
  ASSUME SilenceInvariant,
         last_joy' \in {last_joy, now},
         enabled' => (enabled \/ last_joy' = now) /\ fired' = fired,
         UNCHANGED << requests, fault >> \/ fault'
  PROVE  WatchdogOK' /\ DisablesPrompt'
<1>1. /\ now \in Nat /\ fired \in Nat /\ last_joy \in Nat /\ fired <= now
      /\ JoyTimeout \in Nat /\ Period \in Nat
      /\ \A i \in 1 .. Len(requests) : requests[i].at \in Nat /\ requests[i].at <= now
  BY SilenceFacts DEF SilenceInvariant
<1>2. ASSUME enabled'
      PROVE  fired' <= last_joy' + JoyTimeout
  <2>1. CASE last_joy' = now
    BY <1>1, <1>2, <2>1
  <2>2. CASE enabled /\ last_joy' = last_joy
    BY <1>1, <1>2, <2>2 DEF SilenceInvariant, WatchdogOK
  <2> QED
    BY <1>2, <2>1, <2>2
<1>3. DisablesPrompt'
  BY <1>1 DEF SilenceInvariant, DisablesPrompt
<1> QED
  BY <1>2, <1>3 DEF WatchdogOK

\* setEnabled(): an enable or a disable at the press of a button, or the disable
\* of the watchdog.
LEMMA RequestSilence ==
  ASSUME SilenceInvariant, NEW e \in BOOLEAN, PostRequest(e), enabled' = e,
         \/ last_joy' = now /\ fired' = fired
         \/ last_joy' = last_joy /\ ~ e /\ enabled
  PROVE  WatchdogOK' /\ DisablesPrompt'
<1> DEFINE m == [at |-> now, enable |-> e]
<1>1. /\ now \in Nat /\ fired \in Nat /\ last_joy \in Nat /\ fired <= now /\ now <= fired + Period
      /\ JoyTimeout \in Nat /\ Period \in Nat /\ requests \in Seq(RequestMessage)
      /\ \A i \in 1 .. Len(requests) : requests[i].at \in Nat /\ requests[i].at <= now
  BY SilenceFacts DEF SilenceInvariant
<1>2. WatchdogOK'
  BY <1>1 DEF WatchdogOK
<1>3. now <= last_joy' + JoyTimeout + Period
  BY <1>1 DEF SilenceInvariant, WatchdogOK
<1>4. ASSUME ~ fault'
      PROVE  \A i \in 1 .. Len(requests') :
               ~ requests'[i].enable => requests'[i].at <= last_joy' + JoyTimeout + Period
  <2>1. ~ fault /\ requests' = Append(requests, m)
    BY <1>4 DEF PostRequest, Post
  <2>2. m.at = now /\ m \in RequestMessage
    <3>1. now \in Moment
      BY ConstantsNat, InvariantParts DEF SilenceInvariant, AliveInvariant, TypeOK, Moment
    <3> QED
      BY <3>1 DEF RequestMessage
  <2> HIDE DEF m
  <2>3. /\ Len(requests) \in Nat /\ Len(requests') = Len(requests) + 1
        /\ \A i \in 1 .. Len(requests) : requests'[i] = requests[i]
        /\ requests'[Len(requests) + 1] = m
    BY <1>1, <2>1, <2>2, AppendHolds
  <2> SUFFICES ASSUME NEW i \in 1 .. Len(requests'), ~ requests'[i].enable
               PROVE  requests'[i].at <= last_joy' + JoyTimeout + Period
    OBVIOUS
  <2>4. CASE i = Len(requests) + 1
    BY <1>3, <2>2, <2>3, <2>4
  <2>5. CASE i \in 1 .. Len(requests)
    <3>1. requests[i].at \in Nat /\ requests[i].at <= now /\ requests'[i] = requests[i]
      BY <1>1, <2>3, <2>5
    <3>2. CASE last_joy' = now
      BY <1>1, <3>1, <3>2
    <3>3. CASE last_joy' = last_joy
      BY <2>1, <2>5, <3>1, <3>3 DEF SilenceInvariant, DisablesPrompt
    <3> QED
      BY <3>2, <3>3
  <2> QED
    BY <2>3, <2>4, <2>5
<1> QED
  BY <1>2, <1>4 DEF DisablesPrompt

\* A request is gone from the subscription.
LEMMA TakenSilence ==
  ASSUME SilenceInvariant, TakeRequest
  PROVE  WatchdogOK' /\ DisablesPrompt'
<1>1. /\ requests # << >> /\ requests' = Tail(requests)
      /\ UNCHANGED << enabled, fired, last_joy, fault >>
  BY DEF TakeRequest, switchVars
<1>2. requests \in Seq(RequestMessage)
  BY SilenceFacts DEF SilenceInvariant
<1>3. \A i \in 1 .. Len(Tail(requests)) :
        i + 1 \in 1 .. Len(requests) /\ Tail(requests)[i] = requests[i + 1]
  BY <1>1, <1>2, TailHolds
<1>4. WatchdogOK'
  BY <1>1 DEF SilenceInvariant, WatchdogOK
<1>5. DisablesPrompt'
  BY <1>1, <1>3 DEF SilenceInvariant, DisablesPrompt
<1> QED
  BY <1>4, <1>5

LEMMA SilenceNext == SilenceInvariant /\ [Next]_vars => SilenceInvariant'
<1> SUFFICES ASSUME SilenceInvariant, [Next]_vars
             PROVE  SilenceInvariant'
  OBVIOUS
<1> SUFFICES WatchdogOK' /\ DisablesPrompt'
  BY AliveNext DEF SilenceInvariant
<1>1. ASSUME NEW e \in BOOLEAN, JoyRequests(e)
      PROVE  WatchdogOK' /\ DisablesPrompt'
  <2>1. PostRequest(e) /\ enabled' = e /\ last_joy' = now /\ fired' = fired
    BY <1>1 DEF JoyRequests, Press
  <2> QED
    BY <2>1, RequestSilence, Zenon
<1>2. CASE TimerReleases
  <2>1. PostRequest(FALSE) /\ enabled' = FALSE /\ last_joy' = last_joy /\ enabled
    BY <1>2 DEF TimerReleases, Release
  <2> QED
    BY <2>1, RequestSilence, Zenon
<1>3. CASE TimerCommands
  <2>1. /\ now - last_joy <= JoyTimeout /\ fired' = now
        /\ UNCHANGED << last_joy, enabled, requests >>
        /\ fault' = (fault \/ Full(commands))
    BY <1>3 DEF TimerCommands, TimerFires, Command, Held
  <2>2. WatchdogOK'
    BY <2>1, SilenceFacts DEF SilenceInvariant, WatchdogOK
  <2>3. DisablesPrompt'
    BY <2>1 DEF SilenceInvariant, DisablesPrompt
  <2> QED
    BY <2>2, <2>3
<1>4. CASE JoyHeard
  <2>1. last_joy' = now /\ UNCHANGED << enabled, fired, requests, fault >>
    BY <1>4 DEF JoyHeard, Hold, inboxVars
  <2> QED
    BY <2>1, HeardStep
<1>5. CASE TimerIdles
  <2>1. ~ enabled' /\ UNCHANGED << last_joy, requests, fault >>
    BY <1>5 DEF TimerIdles, switchVars, inboxVars
  <2> QED
    BY <2>1, HeardStep
<1>6. CASE TeleopDies
  BY <1>6 DEF TeleopDies, WatchdogOK, DisablesPrompt
<1>7. CASE CommandLost \/ RequestLost
  <2>1. fault' /\ UNCHANGED << last_joy, enabled, fired >>
    BY <1>7 DEF CommandLost, RequestLost, switchVars
  <2> QED
    BY <2>1, HeardStep
<1>8. CASE TakeCommand \/ ModulesDisable \/ Tick \/ UNCHANGED vars
  <2>1. UNCHANGED << last_joy, enabled, fired, requests, fault >>
    BY <1>8 DEF TakeCommand, ModulesDisable, Tick, Clock, vars, switchVars, inboxVars
  <2> QED
    BY <2>1, HeardStep
<1> QED
  BY <1>1, <1>2, <1>3, <1>4, <1>5, <1>6, <1>7, <1>8, TakenSilence DEF Next, Teleop, Car

LEMMA SilenceInit == Init => SilenceInvariant
<1> SUFFICES ASSUME Init
             PROVE  SilenceInvariant
  OBVIOUS
<1>1. ~ enabled /\ requests = << >>
  BY DEF Init, SwitchInit
<1> QED
  BY <1>1, AliveInit DEF SilenceInvariant, WatchdogOK, DisablesPrompt

LEMMA SilenceAlways == Spec => []SilenceInvariant
BY SilenceInit, SilenceNext, PTL DEF Spec

WatchdogInTime == enabled => now - last_joy <= JoyTimeout + Period

\* The watchdog of publishCommands() takes at most one period more than
\* joy_timeout_s_ to disable, whatever is lost or dies.
THEOREM WatchdogIsInTime == Spec => []WatchdogInTime
<1>1. SilenceInvariant => WatchdogInTime
  BY SilenceFacts DEF SilenceInvariant, WatchdogOK, WatchdogInTime
<1> QED
  BY <1>1, SilenceAlways, PTL

\* Unless a message is lost or the teleop dies, the car stops within one period
\* and one latency of joy_timeout_s_ after the last input.
THEOREM SilenceStopsCar == Spec => []SilenceStops
<1>1. SilenceInvariant => SilenceStops
  <2> SUFFICES ASSUME SilenceInvariant, ~ fault, engaged
               PROVE  now - last_joy <= JoyTimeout + Period + Latency
    BY DEF SilenceStops
  <2>1. /\ now \in Nat /\ fired \in Nat /\ last_joy \in Nat /\ now <= fired + Period
        /\ JoyTimeout \in Nat /\ Period \in Nat /\ Latency \in Nat
        /\ requests \in Seq(RequestMessage)
        /\ \A i \in 1 .. Len(requests) :
             requests[i].at \in Nat /\ now <= requests[i].at + Latency
    BY SilenceFacts DEF SilenceInvariant
  <2>2. CASE enabled
    BY <2>1, <2>2 DEF SilenceInvariant, WatchdogOK
  <2>3. CASE ~ enabled
    <3> DEFINE n == Len(requests)
    <3>1. requests # << >> /\ requests[n].enable = enabled
      BY <2>3 DEF SilenceInvariant, AliveInvariant, LatestWins
    <3>2. n \in 1 .. n
      BY <2>1, <3>1
    <3>3. requests[n].at <= last_joy + JoyTimeout + Period
      BY <2>3, <3>1, <3>2 DEF SilenceInvariant, DisablesPrompt
    <3> HIDE DEF n
    <3>4. requests[n].at \in Nat /\ now <= requests[n].at + Latency
      BY <2>1, <3>2 DEF n
    <3> QED
      BY <2>1, <3>3, <3>4
  <2> QED
    BY <2>2, <2>3
<1> QED
  BY <1>1, SilenceAlways, PTL

=============================================================================
