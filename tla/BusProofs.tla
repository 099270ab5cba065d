----------------------------- MODULE BusProofs ------------------------------
(***************************************************************************)
(* The event bus implements the event log, for any number of subscribers   *)
(* and events.                                                             *)
(***************************************************************************)
EXTENDS Bus, TLAPS

\* The last event a bus has taken.
Position(b) == IF b = Root THEN published ELSE last[b] + Len(evbuf[b])

\* Subscriptions form a tree, and a bus only works on its own subscribers.
Tree ==
    /\ \A b \in Buses : pending[b] \subseteq subscriptions[b]
    /\ \A b, c \in Buses : \A s \in Subscribers :
          s \in subscriptions[b] /\ s \in subscriptions[c] => b = c
    /\ \A s \in Subscribers : phase[s] = "none" =>
          subscriptions[s] = {} /\ pending[s] = {} /\ \A b \in Buses : s \notin subscriptions[b]
    /\ evbuf[Root] = << >>

\* A buffer holds the events that follow the last one given to the reader.
InOrder ==
    \A s \in Subscribers : phase[s] = "running" =>
        /\ \A i \in 1..Len(evbuf[s]) : evbuf[s][i] = last[s] + i
        /\ Position(s) <= published

\* A running subscriber of a running bus is level with it, or one event behind while
\* the bus is still publishing that event to it.
InStep ==
    \A b \in Buses : phase[b] = "running" =>
        \A c \in subscriptions[b] : phase[c] = "running" =>
            /\ c \in pending[b] => current[b] = Position(b) /\ Position(b) = Position(c) + 1
            /\ c \notin pending[b] => Position(b) = Position(c)

BInv == TypeOK /\ Tree /\ InOrder /\ InStep

-----------------------------------------------------------------------------

\* What appending to a buffer does (b.evbuf = append(b.evbuf, ev)).
LEMMA AppendToBuffer ==
    ASSUME NEW q \in Seq(Nat), NEW v \in Nat
    PROVE  /\ Append(q, v) \in Seq(Nat) /\ Len(Append(q, v)) = Len(q) + 1
           /\ \A i \in 1..Len(q) : Append(q, v)[i] = q[i]
           /\ Append(q, v)[Len(q) + 1] = v
OBVIOUS

\* What shrinking a buffer does (b.evbuf = b.evbuf[1:]).
LEMMA ShrinkBuffer ==
    ASSUME NEW q \in Seq(Nat), q # << >>
    PROVE  /\ Tail(q) \in Seq(Nat) /\ Len(q) \in Nat \ {0} /\ Len(Tail(q)) = Len(q) - 1
           /\ Head(q) = q[1] /\ Head(q) \in Nat
           /\ \A i \in 1..(Len(q) - 1) : Tail(q)[i] = q[i + 1]
OBVIOUS

\* A fresh bus has no subscribers and has published nothing.
LEMMA BusInit == Init => BInv
BY BusAssumption
DEF Init, BInv, TypeOK, Tree, InOrder, InStep, Position, Buses

\* Publish on the root puts every subscriber one event behind.
LEMMA StepPublish ==
    ASSUME BInv, Publish
    PROVE  BInv'
<1> USE BusAssumption DEF BInv
<1>1. TypeOK'
    BY DEF TypeOK, Publish, Receive, Buses
<1>2. Tree'
    BY DEF TypeOK, Tree, Publish, Receive, Buses
<1>3. /\ \A s \in Subscribers : Position(s)' = Position(s)
      /\ Position(Root)' = published + 1
    BY DEF TypeOK, Publish, Receive, Position, Buses
<1>4. InOrder'
    <2>1. \A s \in Subscribers : Position(s) \in Nat
        BY DEF TypeOK, Position, Buses
    <2> QED
        BY <1>3, <2>1 DEF TypeOK, InOrder, Publish, Receive, Buses
<1>5. InStep'
    <2>1. Selecting(Root) /\ Position(Root) = published
        BY DEF Publish, Accepts, Position
    <2>2. SUFFICES ASSUME NEW b \in Buses, phase[b] = "running",
                          NEW c \in subscriptions[b], phase[c] = "running"
                   PROVE  /\ c \in pending'[b] =>
                                current'[b] = Position(b)' /\ Position(b)' = Position(c)' + 1
                          /\ c \notin pending'[b] => Position(b)' = Position(c)'
        BY DEF InStep, Publish
    <2>3. c \in Subscribers /\ Position(c)' = Position(c)
        BY <1>3 DEF TypeOK
    <2>4. CASE b = Root
        BY <1>3, <2>1, <2>2, <2>3, <2>4, Zenon
        DEF TypeOK, InStep, Publish, Receive, Selecting, Buses
    <2>5. CASE b # Root
        BY <1>3, <2>2, <2>3, <2>5 DEF TypeOK, InStep, Publish, Receive, Buses
    <2> QED
        BY <2>4, <2>5
<1> QED
    BY <1>1, <1>2, <1>4, <1>5

\* A subscriber that takes an event catches up with its bus and passes it on.
LEMMA StepPublishTo ==
    ASSUME BInv, NEW b \in Buses, NEW c \in Buses, PublishTo(b, c)
    PROVE  BInv'
<1> USE BusAssumption DEF BInv
<1>1. /\ phase[b] = "running" /\ c \in pending[b] /\ c \in subscriptions[b]
      /\ phase[c] = "running" /\ pending[c] = {}
      /\ c \in Subscribers /\ c # Root /\ b # c
      /\ current[b] = Position(b) /\ Position(b) = Position(c) + 1
    BY DEF PublishTo, Accepts, Selecting, TypeOK, Tree, InStep, Buses
<1>2. /\ UNCHANGED <<phase, subscriptions, published, last>>
      /\ evbuf' = [evbuf EXCEPT ![c] = Append(evbuf[c], current[b])]
      /\ current' = [current EXCEPT ![c] = current[b]]
      /\ pending' = [pending EXCEPT ![b] = pending[b] \ {c}, ![c] = subscriptions[c]]
    BY <1>1 DEF PublishTo, Receive
<1>3. TypeOK'
    <2>1. Append(evbuf[c], current[b]) \in Seq(Nat)
        BY <1>1, AppendToBuffer DEF TypeOK
    <2> QED
        BY <1>1, <1>2, <2>1, Zenon DEF TypeOK
<1>4. Tree'
    BY <1>1, <1>2, Zenon DEF TypeOK, Tree, Buses
<1>5. /\ \A d \in Buses : d # c => Position(d)' = Position(d)
      /\ Position(c)' = Position(c) + 1
    BY <1>1, <1>2 DEF TypeOK, Position, Buses
<1>6. \A d \in Buses : Position(d) \in Nat
    BY DEF TypeOK, Position, Buses
<1>7. Position(b) <= published
    BY <1>1 DEF InOrder, TypeOK, Position, Buses
<1>8. InOrder'
    <2>1. ASSUME NEW s \in Subscribers, phase[s] = "running", s # c
          PROVE  /\ \A i \in 1..Len(evbuf'[s]) : evbuf'[s][i] = last[s] + i
                 /\ Position(s)' <= published
        BY <1>2, <1>5, <2>1 DEF InOrder, TypeOK, Buses
    <2>2. \A i \in 1..Len(evbuf'[c]) : evbuf'[c][i] = last[c] + i
        <3>1. evbuf'[c] = Append(evbuf[c], current[b]) /\ evbuf[c] \in Seq(Nat)
            BY <1>1, <1>2 DEF TypeOK
        <3>2. current[b] = last[c] + Len(evbuf[c]) + 1
            BY <1>1 DEF Position
        <3>3. \A i \in 1..Len(evbuf[c]) : evbuf[c][i] = last[c] + i
            BY <1>1 DEF InOrder
        <3>4. last[c] \in Nat /\ current[b] \in Nat /\ Len(evbuf[c]) \in Nat
            BY <1>1, <3>1 DEF TypeOK
        <3>5. SUFFICES ASSUME NEW i \in 1..(Len(evbuf[c]) + 1)
                       PROVE  evbuf'[c][i] = last[c] + i
            BY <3>1, <3>4, AppendToBuffer, SMTT(30)
        <3>6. CASE i \in 1..Len(evbuf[c])
            BY <3>1, <3>3, <3>4, <3>6, AppendToBuffer
        <3>7. CASE i = Len(evbuf[c]) + 1
            <4>1. evbuf'[c][i] = current[b]
                BY <3>1, <3>4, <3>7, AppendToBuffer
            <4> QED
                BY <3>2, <3>4, <3>7, <4>1
        <3> QED
            BY <3>4, <3>6, <3>7
    <2>3. Position(c)' <= published
        BY <1>1, <1>5, <1>7
    <2> QED
        BY <1>2, <2>1, <2>2, <2>3 DEF InOrder
<1>9. InStep'
    <2>1. SUFFICES ASSUME NEW d \in Buses, phase[d] = "running",
                          NEW e \in subscriptions[d], phase[e] = "running"
                   PROVE  /\ e \in pending'[d] =>
                                current'[d] = Position(d)' /\ Position(d)' = Position(e)' + 1
                          /\ e \notin pending'[d] => Position(d)' = Position(e)'
        BY <1>2, Zenon DEF InStep
    <2>2. e \in Subscribers /\ e \in Buses
        BY <2>1 DEF TypeOK, Buses
    <2>3. CASE d = b /\ e = c
        BY <1>1, <1>2, <1>5, <2>3 DEF TypeOK
    <2>4. CASE d = b /\ e # c
        BY <1>1, <1>2, <1>5, <2>1, <2>2, <2>4 DEF TypeOK, InStep
    <2>5. CASE d = c
        <3>1. e # c
            BY <1>1, <2>1, <2>2, <2>5 DEF Tree
        <3>2. Position(c) = Position(e)
            BY <1>1, <2>1, <2>5 DEF InStep
        <3> QED
            BY <1>1, <1>2, <1>5, <2>1, <2>2, <2>5, <3>1, <3>2 DEF TypeOK
    <2>6. CASE d # b /\ d # c
        <3>1. e # c
            BY <1>1, <2>1, <2>6 DEF Tree
        <3> QED
            BY <1>2, <1>5, <2>1, <2>2, <2>6, <3>1 DEF TypeOK, InStep
    <2> QED
        BY <2>3, <2>4, <2>5, <2>6
<1> QED
    BY <1>3, <1>4, <1>8, <1>9

\* A reader takes the event after the last one it was given.
LEMMA StepEmit ==
    ASSUME BInv, NEW s \in Subscribers, Emit(s)
    PROVE  BInv' /\ last[s] < published /\ last' = [last EXCEPT ![s] = last[s] + 1]
<1> USE BusAssumption DEF BInv
<1>1. /\ phase[s] = "running" /\ evbuf[s] # << >> /\ evbuf[s] \in Seq(Nat) /\ last[s] \in Nat
      /\ UNCHANGED <<phase, subscriptions, pending, current, published>>
      /\ evbuf' = [evbuf EXCEPT ![s] = Tail(evbuf[s])]
      /\ last' = [last EXCEPT ![s] = Head(evbuf[s])]
      /\ s \in Buses /\ s # Root
    BY DEF Emit, Selecting, TypeOK, Buses
<1>2. \A i \in 1..Len(evbuf[s]) : evbuf[s][i] = last[s] + i
    BY <1>1 DEF InOrder
<1>3. Head(evbuf[s]) = last[s] + 1 /\ Len(evbuf[s]) \in Nat \ {0}
    BY <1>1, <1>2, ShrinkBuffer
<1>4. last[s] < published
    BY <1>1, <1>3 DEF InOrder, Position, TypeOK
<1>5. TypeOK' /\ Tree'
    BY <1>1, <1>3, ShrinkBuffer, Zenon DEF TypeOK, Tree, Buses
<1>6. \A d \in Buses : Position(d)' = Position(d)
    <2>1. last'[s] + Len(evbuf'[s]) = last[s] + Len(evbuf[s])
        BY <1>1, <1>3, ShrinkBuffer DEF TypeOK
    <2> QED
        BY <1>1, <2>1, SMTT(30) DEF TypeOK, Position, Buses
<1>7. InOrder'
    <2>1. \A i \in 1..Len(evbuf'[s]) : evbuf'[s][i] = last'[s] + i
        <3>1. evbuf'[s] = Tail(evbuf[s]) /\ last'[s] = last[s] + 1
            BY <1>1, <1>3 DEF TypeOK
        <3>2. SUFFICES ASSUME NEW i \in 1..(Len(evbuf[s]) - 1)
                       PROVE  evbuf'[s][i] = last[s] + 1 + i
            BY <1>1, <1>3, <3>1, ShrinkBuffer, Zenon
        <3>3. i + 1 \in 1..Len(evbuf[s])
            BY <1>3
        <3>4. evbuf'[s][i] = evbuf[s][i + 1]
            BY <1>1, <3>1, ShrinkBuffer, Zenon
        <3>5. evbuf[s][i + 1] = last[s] + (i + 1)
            BY <1>2, <3>3
        <3>6. last[s] \in Nat /\ i \in Nat
            BY <1>1, <1>3
        <3>7. last[s] + (i + 1) = last[s] + 1 + i
            BY <3>6
        <3> QED
            BY <3>4, <3>5, <3>7
    <2> QED
        BY <1>1, <1>6, <2>1, SMTT(30) DEF InOrder, TypeOK, Buses
<1>8. InStep'
    BY <1>1, <1>6, SMTT(30) DEF InStep, TypeOK, Buses
<1> QED
    BY <1>1, <1>3, <1>4, <1>5, <1>7, <1>8, Zenon

\* A new subscriber holds what its bus holds.
LEMMA StepNewSubscriber ==
    ASSUME BInv, NEW b \in Buses, NEW s \in Subscribers, NewSubscriber(b, s)
    PROVE  BInv'
<1> USE BusAssumption DEF BInv
<1>1. /\ phase[b] = "running" /\ pending[b] = {} /\ phase[s] = "none"
      /\ s # b /\ s # Root /\ s \in Buses
      /\ subscriptions[s] = {} /\ pending[s] = {} /\ \A d \in Buses : s \notin subscriptions[d]
      /\ phase' = [phase EXCEPT ![s] = "running"]
      /\ evbuf' = [evbuf EXCEPT ![s] = evbuf[b]]
      /\ subscriptions' = [subscriptions EXCEPT ![b] = subscriptions[b] \cup {s}]
      /\ last' = [last EXCEPT ![s] = IF b = Root THEN published ELSE last[b]]
      /\ UNCHANGED <<pending, current, published>>
    BY DEF NewSubscriber, Fresh, Selecting, Tree, Buses
<1>2. TypeOK'
    BY <1>1, SMTT(30) DEF TypeOK, Buses
<1>3. Tree'
    BY <1>1, SMTT(30) DEF TypeOK, Tree, Buses
<1>4. /\ \A d \in Buses : d # s => Position(d)' = Position(d)
      /\ Position(s)' = Position(b)
    BY <1>1 DEF TypeOK, Tree, Position, Buses
<1>5. InOrder'
    <2>1. CASE b = Root
        BY <1>1, <1>4, <2>1 DEF InOrder, Tree, TypeOK, Position, Buses
    <2>2. CASE b # Root
        BY <1>1, <1>4, <2>2, SMTT(30) DEF InOrder, TypeOK, Buses
    <2> QED
        BY <2>1, <2>2
<1>6. InStep'
    <2>1. SUFFICES ASSUME NEW d \in Buses, phase'[d] = "running",
                          NEW e \in subscriptions'[d], phase'[e] = "running"
                   PROVE  /\ e \in pending'[d] =>
                                current'[d] = Position(d)' /\ Position(d)' = Position(e)' + 1
                          /\ e \notin pending'[d] => Position(d)' = Position(e)'
        BY DEF InStep
    <2>2. e \in Buses /\ d # s
        BY <1>1, <1>2, <2>1 DEF TypeOK, Buses
    <2>3. CASE e = s
        BY <1>1, <1>4, <2>1, <2>2, <2>3 DEF TypeOK
    <2>4. CASE e # s
        BY <1>1, <1>4, <2>1, <2>2, <2>4, SMTT(30) DEF TypeOK, InStep
    <2> QED
        BY <2>3, <2>4
<1> QED
    BY <1>2, <1>3, <1>5, <1>6

\* Steps that only end or skip something keep buffers and positions.
LEMMA StepShutdown ==
    ASSUME BInv, NEW b \in Buses, NEW c \in Buses,
           \/ Close(b) \/ PublishFails(b, c) \/ ShutdownSub(b, c) \/ SubShuttingDown(b, c)
           \/ Unsubscribe(b, c) \/ RootDone
    PROVE  BInv'
<1> USE BusAssumption DEF BInv
<1>1. UNCHANGED <<evbuf, current, published, last>>
    BY DEF Close, PublishFails, ShutdownSub, SubShuttingDown, Unsubscribe, RootDone
<1> DEFINE Ends ==
        /\ TypeOK'
        /\ \A d \in Buses : phase'[d] = "running" => phase[d] = "running"
        /\ \A d \in Buses : phase'[d] = "none" => phase[d] = "none"
        /\ \A d \in Buses : subscriptions'[d] \subseteq subscriptions[d]
        /\ \A d \in Buses, e \in Subscribers : phase'[d] = "running" /\ phase'[e] = "running" =>
              (e \in pending'[d] <=> e \in pending[d])
        /\ \A d \in Buses : pending'[d] \subseteq subscriptions'[d]
<1>2. Ends
    <2>1. CASE Close(b)
        BY <2>1 DEF Close, Selecting, TypeOK, Tree
    <2>2. CASE PublishFails(b, c)
        BY <2>2 DEF PublishFails, ShuttingDown, TypeOK, Tree
    <2>3. CASE ShutdownSub(b, c)
        <3>1. /\ b # c /\ phase[b] = "closing" /\ phase[c] = "running"
              /\ UNCHANGED <<subscriptions, evbuf, current, published, last>>
              /\ phase' = [phase EXCEPT ![c] = "closing"]
              /\ pending' = [pending EXCEPT ![b] = pending[b] \ {c}, ![c] = subscriptions[c]]
            BY <2>3 DEF ShutdownSub, Selecting, TypeOK
        <3>2. TypeOK'
            BY <3>1, Zenon DEF TypeOK
        <3>3. \A d \in Buses : pending'[d] \subseteq subscriptions'[d]
            BY <3>1 DEF TypeOK, Tree
        <3>4. \A d \in Buses : phase'[d] = "running" => pending'[d] = pending[d]
            BY <3>1 DEF TypeOK
        <3> QED
            BY <3>1, <3>2, <3>3, <3>4, Zenon DEF TypeOK
    <2>4. CASE SubShuttingDown(b, c)
        BY <2>4 DEF SubShuttingDown, TypeOK, Tree
    <2>5. CASE Unsubscribe(b, c)
        BY <2>5 DEF Unsubscribe, Selecting, Drained, TypeOK, Tree
    <2>6. CASE RootDone
        BY <2>6 DEF RootDone, Drained, TypeOK, Tree, Buses
    <2> QED
        BY <2>1, <2>2, <2>3, <2>4, <2>5, <2>6
<1>3. TypeOK'
    BY <1>2
<1>4. Tree'
    <2>1. \A s \in Subscribers : phase'[s] = "none" =>
              subscriptions'[s] = {} /\ \A d \in Buses : s \notin subscriptions'[d]
        BY <1>2 DEF TypeOK, Tree, Buses
    <2> QED
        BY <1>1, <1>2, <2>1 DEF TypeOK, Tree, Buses
<1>5. \A d \in Buses : Position(d)' = Position(d)
    BY <1>1 DEF Position
<1>6. InOrder'
    BY <1>1, <1>2, <1>5 DEF InOrder, Buses
<1>7. InStep'
    BY <1>1, <1>2, <1>3, <1>5 DEF InStep, TypeOK, Buses
<1> QED
    BY <1>3, <1>4, <1>6, <1>7

\* Every step of the bus preserves the invariant.
LEMMA BusNext == BInv /\ [Next]_vars => BInv'
<1> SUFFICES ASSUME BInv, [Next]_vars PROVE BInv'
    OBVIOUS
<1>1. CASE UNCHANGED vars
    BY <1>1 DEF vars, BInv, TypeOK, Tree, InOrder, InStep, Position
<1>2. CASE Next
    BY <1>2, StepPublish, StepPublishTo, StepEmit, StepNewSubscriber, StepShutdown
    DEF Next, Internal, Buses
<1> QED
    BY <1>1, <1>2

\* The invariant of the bus holds throughout.
LEMMA BusInvariant == Spec => []BInv
BY BusInit, BusNext, PTL DEF Spec

\* Buses, subscriptions and buffers keep their types.
THEOREM BusTypeCorrect == Spec => []TypeOK
<1>1. BInv => TypeOK
    BY DEF BInv
<1> QED
    BY <1>1, BusInvariant, PTL

\* Every step of the bus keeps a live parent above a live subscriber: a bus leaves its
\* loop only when it has received every one of its subscribers from unsubch.
LEMMA StepNoOrphans ==
    ASSUME TypeOK, NoOrphans, [Next]_vars
    PROVE  NoOrphans'
<1> USE BusAssumption
<1> DEFINE Live(b) == phase[b] \in {"running", "closing"}
<1>1. SUFFICES ASSUME NEW s \in Subscribers, Live(s)'
               PROVE  \E b \in Buses : s \in subscriptions'[b] /\ Live(b)'
    BY DEF NoOrphans
<1>2. ASSUME UNCHANGED subscriptions, \A b \in Buses : Live(b)' <=> Live(b)
      PROVE  \E b \in Buses : s \in subscriptions'[b] /\ Live(b)'
    BY <1>1, <1>2 DEF NoOrphans, Buses
<1>3. ASSUME UNCHANGED <<phase, subscriptions>>
      PROVE  \E b \in Buses : s \in subscriptions'[b] /\ Live(b)'
    BY <1>2, <1>3
<1>4. CASE UNCHANGED vars
    BY <1>3, <1>4 DEF vars
<1>5. CASE Publish
    BY <1>3, <1>5 DEF Publish
<1>6. ASSUME NEW t \in Subscribers, Emit(t)
      PROVE  \E b \in Buses : s \in subscriptions'[b] /\ Live(b)'
    BY <1>3, <1>6 DEF Emit
<1>7. ASSUME NEW b \in Buses, NEW c \in Buses,
             PublishTo(b, c) \/ PublishFails(b, c) \/ SubShuttingDown(b, c)
      PROVE  \E d \in Buses : s \in subscriptions'[d] /\ Live(d)'
    BY <1>3, <1>7 DEF PublishTo, PublishFails, SubShuttingDown
<1>8. ASSUME NEW b \in Buses, NEW c \in Buses, Close(b) \/ ShutdownSub(b, c)
      PROVE  \E d \in Buses : s \in subscriptions'[d] /\ Live(d)'
    <2>1. UNCHANGED subscriptions /\ \A d \in Buses : Live(d)' <=> Live(d)
        BY <1>8 DEF Close, ShutdownSub, Selecting, TypeOK
    <2> QED
        BY <1>2, <2>1
<1>9. ASSUME NEW b \in Buses, NEW t \in Subscribers, NewSubscriber(b, t)
      PROVE  \E d \in Buses : s \in subscriptions'[d] /\ Live(d)'
    <2>1. /\ phase[b] = "running" /\ t \in Buses /\ b \in Buses
          /\ phase' = [phase EXCEPT ![t] = "running"]
          /\ subscriptions' = [subscriptions EXCEPT ![b] = subscriptions[b] \cup {t}]
        BY <1>9 DEF NewSubscriber, Selecting, Buses
    <2>2. CASE s = t
        <3>1. s \in subscriptions'[b] /\ phase'[b] = "running"
            BY <2>1, <2>2 DEF TypeOK
        <3> QED
            BY <3>1
    <2>3. CASE s # t
        <3>1. PICK d \in Buses : s \in subscriptions[d] /\ Live(d)
            BY <1>1, <2>1, <2>3 DEF NoOrphans, TypeOK
        <3>2. s \in subscriptions'[d] /\ Live(d)'
            BY <2>1, <3>1 DEF TypeOK
        <3> QED
            BY <3>2
    <2> QED
        BY <2>2, <2>3
<1>10. ASSUME NEW b \in Buses, NEW c \in Buses, Unsubscribe(b, c)
      PROVE  \E d \in Buses : s \in subscriptions'[d] /\ Live(d)'
    <2>1. /\ subscriptions[c] = {} /\ c \in subscriptions[b]
          /\ phase' = [phase EXCEPT ![c] = "done"]
          /\ subscriptions' = [subscriptions EXCEPT ![b] = subscriptions[b] \ {c}]
        BY <1>10 DEF Unsubscribe, Drained
    <2>2. s # c /\ Live(s)
        BY <1>1, <2>1 DEF TypeOK, Buses
    <2>3. PICK d \in Buses : s \in subscriptions[d] /\ Live(d)
        BY <2>2 DEF NoOrphans
    <2>4. d # c
        BY <2>1, <2>3
    <2>5. s \in subscriptions'[d] /\ Live(d)'
        BY <2>1, <2>2, <2>3, <2>4 DEF TypeOK
    <2> QED
        BY <2>5
<1>11. CASE RootDone
    <2>1. /\ subscriptions[Root] = {} /\ UNCHANGED subscriptions
          /\ phase' = [phase EXCEPT ![Root] = "done"]
        BY <1>11 DEF RootDone, Drained
    <2>2. PICK d \in Buses : s \in subscriptions[d] /\ Live(d)
        BY <1>1, <2>1 DEF NoOrphans, TypeOK, Buses
    <2>3. s \in subscriptions'[d] /\ Live(d)'
        BY <2>1, <2>2 DEF TypeOK
    <2> QED
        BY <2>3
<1> QED
    BY <1>4, <1>5, <1>6, <1>7, <1>8, <1>9, <1>10, <1>11 DEF Next, Internal

\* No reader is left on a subscription that nothing feeds and nothing will close.
THEOREM NobodyIsOrphaned == Spec => []NoOrphans
<1>1. Init => NoOrphans
    BY BusAssumption DEF Init, NoOrphans, Buses
<1>2. TypeOK /\ NoOrphans /\ [Next]_vars => NoOrphans'
    BY StepNoOrphans
<1> QED
    BY <1>1, <1>2, BusTypeCorrect, PTL DEF Spec

\* Every step of the bus is a step of the log, or leaves it alone.
LEMMA BusStepIsLogStep ==
    ASSUME BInv, [Next]_vars
    PROVE  [Log!LogNext]_<<published, open, last>>
<1> USE BusAssumption DEF BInv
<1>1. CASE Publish
    <2>1. UNCHANGED <<open, last>> /\ published' = published + 1
        BY <1>1 DEF Publish, open
    <2> QED
        BY <2>1 DEF Log!LogNext, Log!LogPublish
<1>2. ASSUME NEW s \in Subscribers, Emit(s)
      PROVE  Log!LogNext
    <2>1. s \in open /\ UNCHANGED <<published, open>>
        BY <1>2 DEF Emit, Selecting, open
    <2>2. last[s] < published /\ last' = [last EXCEPT ![s] = last[s] + 1]
        BY <1>2, StepEmit
    <2> QED
        BY <2>1, <2>2, Zenon DEF Log!LogNext, Log!LogDeliver
<1>3. ASSUME NEW b \in Buses, NEW s \in Subscribers, NewSubscriber(b, s)
      PROVE  Log!LogNext
    <2>1. s \notin open /\ open' = open \cup {s} /\ UNCHANGED published
        BY <1>3, SMTT(30) DEF NewSubscriber, Fresh, open, TypeOK, Buses
    <2>2. CASE b = Root
        <3>1. last' = [last EXCEPT ![s] = published]
            BY <1>3, <2>2 DEF NewSubscriber
        <3> QED
            BY <2>1, <3>1, Zenon DEF Log!LogNext, Log!LogSubscribe
    <2>3. CASE b # Root
        <3>1. b \in open /\ b \in Subscribers /\ last' = [last EXCEPT ![s] = last[b]]
            BY <1>3, <2>3 DEF NewSubscriber, Selecting, open, Buses
        <3> QED
            BY <2>1, <3>1, Zenon DEF Log!LogNext, Log!LogClone
    <2> QED
        BY <2>2, <2>3
<1>4. ASSUME NEW b \in Buses, Close(b)
      PROVE  Log!LogNext \/ UNCHANGED <<published, open, last>>
    <2>1. UNCHANGED <<published, last>>
        BY <1>4 DEF Close
    <2>2. CASE b = Root
        BY <1>4, <2>1, <2>2 DEF Close, open, TypeOK, Buses
    <2>3. CASE b # Root
        <3>1. b \in Subscribers /\ b \in open /\ open' = open \ {b}
            BY <1>4, <2>3 DEF Close, Selecting, open, TypeOK, Buses
        <3> QED
            BY <2>1, <3>1 DEF Log!LogNext, Log!LogClose
    <2> QED
        BY <2>2, <2>3
<1>5. ASSUME NEW b \in Buses, NEW c \in Buses, ShutdownSub(b, c)
      PROVE  Log!LogNext
    <2>1. /\ UNCHANGED <<published, last>>
          /\ c \in Subscribers /\ c \in open /\ open' = open \ {c}
        BY <1>5 DEF ShutdownSub, Selecting, open, TypeOK, Buses
    <2> QED
        BY <2>1 DEF Log!LogNext, Log!LogClose
<1>6. ASSUME NEW b \in Buses, NEW c \in Buses,
             PublishTo(b, c) \/ PublishFails(b, c) \/ SubShuttingDown(b, c)
      PROVE  UNCHANGED <<published, open, last>>
    BY <1>6 DEF PublishTo, PublishFails, SubShuttingDown, open
<1>7. ASSUME NEW b \in Buses, NEW c \in Buses, Unsubscribe(b, c) \/ RootDone
      PROVE  UNCHANGED <<published, open, last>>
    BY <1>7 DEF Unsubscribe, RootDone, Drained, open, TypeOK, Buses
<1>8. CASE UNCHANGED vars
    BY <1>8 DEF vars, open
<1> QED
    BY <1>1, <1>2, <1>3, <1>4, <1>5, <1>6, <1>7, <1>8 DEF Next, Internal, Buses

\* The bus implements the event log: whatever goroutines interleave, each subscriber is
\* given every event after its creation (or after its original's position) exactly once
\* and in order.
THEOREM BusImplementsLog == Spec => ImplementsLog
<1>1. Init => Log!LogInit
    BY BusAssumption DEF Init, open, Log!LogInit, Buses
<1>2. BInv /\ [Next]_vars => [Log!LogNext]_<<published, open, last>>
    BY BusStepIsLogStep
<1> QED
    BY <1>1, <1>2, BusInvariant, PTL DEF Spec, ImplementsLog, Log!LogSpec

=============================================================================
