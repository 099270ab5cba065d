-------------------------- MODULE BidEngineProofs ---------------------------
(***************************************************************************)
(* For any orders, groups and events: the reservations that the bid engine *)
(* has in the inventory are exactly those its monitors can account for,    *)
(* and a lease is announced by a monitor that has resources for it, once.  *)
(***************************************************************************)
EXTENDS BidEngine, FiniteSetTheorems, TLAPS

\* The calls and the states of a monitor.
Calls == [op : {"none", "group", "reserve", "bid"}, result : {"pending", "ok", "error"}]
Monitors == [order : Orders, bid : BOOLEAN, pos : Nat, at : {"loop", "waiting", "done", "drained"},
             call : Calls, group : BOOLEAN, reservation : BOOLEAN, won : BOOLEAN, unkept : BOOLEAN,
             failed : BOOLEAN]

\* A monitor that has a reservation, or has dropped one, is past its calls for the group and
\* for the reservation, and it never has both.
Tidy(x) ==
    /\ x.reservation \/ x.unkept => x.call.op \notin {"group", "reserve"}
    /\ ~(x.reservation /\ x.unkept)

\* The monitors and the events are what they should be.
MonInv ==
    /\ svc = "starting" => mon = << >>
    /\ mon \in Seq(Monitors) /\ \A m \in DOMAIN mon : Tidy(mon[m])
    /\ pos \in Nat /\ log \in Seq([type : {"created", "won", "lost", "closed"}, order : Orders])

-----------------------------------------------------------------------------
(* Calls and monitors *)

\* A call is a successful reservation if its fields say so.
LEMMA CallFacts ==
    ASSUME NEW c \in Calls
    PROVE  /\ c.op \in {"none", "group", "reserve", "bid"} /\ c.result \in {"pending", "ok", "error"}
           /\ c = [op |-> "reserve", result |-> "ok"] <=> c.op = "reserve" /\ c.result = "ok"
           /\ \A op : c = Call(op) => c.op = op /\ c.result = "pending"
BY DEF Calls, Call

\* The result of a call is set.
LEMMA ResultSet ==
    ASSUME NEW c \in Calls, NEW r \in {"ok", "error"}, NEW d, d = [c EXCEPT !.result = r]
    PROVE  d \in Calls /\ d.op = c.op /\ d.result = r
BY DEF Calls

\* The calls that a monitor begins.
LEMMA NewCalls ==
    /\ Call("group") \in Calls /\ Call("group").op = "group" /\ Call("group").result = "pending"
    /\ Call("reserve") \in Calls /\ Call("reserve").op = "reserve" /\ Call("reserve").result = "pending"
    /\ Call("bid") \in Calls /\ Call("bid").op = "bid" /\ Call("bid").result = "pending"
    /\ NoCall \in Calls /\ NoCall.op = "none" /\ NoCall.result = "pending"
BY DEF Calls, Call, NoCall

\* The fields of a monitor.
LEMMA MonitorFields ==
    ASSUME NEW x \in Monitors
    PROVE  /\ x.order \in Orders /\ x.call \in Calls /\ x.pos \in Nat
           /\ x.at \in {"loop", "waiting", "done", "drained"}
           /\ x.bid \in BOOLEAN /\ x.reservation \in BOOLEAN /\ x.won \in BOOLEAN /\ x.unkept \in BOOLEAN
BY DEF Monitors

\* What a monitor holds, field by field.
LEMMA HoldsFields ==
    ASSUME NEW x \in Monitors
    PROVE  Holds(x) <=> \/ x.reservation /\ (x.at = "loop" \/ x.won)
                        \/ x.unkept \/ (x.call.op = "reserve" /\ x.call.result = "ok")
<1>1. x.call \in Calls
  BY MonitorFields
<1>2. x.call = [op |-> "reserve", result |-> "ok"] <=> x.call.op = "reserve" /\ x.call.result = "ok"
  BY <1>1, CallFacts, Zenon
<1> QED BY <1>2 DEF Holds

\* y is a monitor for the order of x, with the reservation of x.
Like(y, x) ==
    /\ y \in Monitors /\ y.order = x.order /\ y.reservation = x.reservation /\ y.unkept = x.unkept

\* The changes that a monitor makes to its fields.
WithCall(x, c) == [x EXCEPT !.call = c]
WithGroup(x, c) == [x EXCEPT !.group = TRUE, !.call = c]
WithReservation(x, c) == [x EXCEPT !.reservation = TRUE, !.call = c]
WithUnkept(x) == [x EXCEPT !.unkept = TRUE]
WithFailed(x) == [x EXCEPT !.failed = TRUE]
WithAt(x, a) == [x EXCEPT !.at = a]
WithEnd(x, u) == [x EXCEPT !.at = "done", !.call = NoCall, !.unkept = u]
WithEvent(x, w) == [x EXCEPT !.pos = @ + 1, !.won = w]

\* A call begins or ends.
LEMMA CallChanged ==
    ASSUME NEW x \in Monitors, NEW c \in Calls
    PROVE  LET y == WithCall(x, c) IN Like(y, x) /\ y.at = x.at /\ y.won = x.won /\ y.call = c
BY Zenon DEF Monitors, Like, WithCall

\* The group is there.
LEMMA GroupChanged ==
    ASSUME NEW x \in Monitors, NEW c \in Calls
    PROVE  LET y == WithGroup(x, c) IN Like(y, x) /\ y.at = x.at /\ y.won = x.won /\ y.call = c
BY Zenon DEF Monitors, Like, WithGroup

\* The monitor goes on to another state, takes note of an error, or reads an event.
LEMMA AtChanged ==
    ASSUME NEW x \in Monitors, NEW a \in {"loop", "waiting", "done", "drained"}
    PROVE  LET y == WithAt(x, a) IN Like(y, x) /\ y.at = a /\ y.won = x.won /\ y.call = x.call
BY Zenon DEF Monitors, Like, WithAt

LEMMA Ended ==
    ASSUME NEW x \in Monitors, NEW u \in BOOLEAN
    PROVE  LET y == WithEnd(x, u) IN
           /\ y \in Monitors /\ y.order = x.order /\ y.at = "done" /\ y.won = x.won
           /\ y.call = NoCall /\ y.reservation = x.reservation /\ y.unkept = u
<1>1. NoCall \in Calls
  BY NewCalls
<1> QED BY <1>1, Zenon DEF Monitors, WithEnd

LEMMA FailedChanged ==
    ASSUME NEW x \in Monitors
    PROVE  LET y == WithFailed(x) IN Like(y, x) /\ y.at = x.at /\ y.won = x.won /\ y.call = x.call
BY Zenon DEF Monitors, Like, WithFailed

LEMMA EventRead ==
    ASSUME NEW x \in Monitors, NEW w \in BOOLEAN
    PROVE  LET y == WithEvent(x, w) IN Like(y, x) /\ y.at = x.at /\ y.call = x.call
<1>1. x.pos + 1 \in Nat
  BY MonitorFields
<1> QED BY <1>1, Zenon DEF Monitors, Like, WithEvent

\* A reservation is kept, or is not.
LEMMA ReservationKept ==
    ASSUME NEW x \in Monitors, NEW c \in Calls
    PROVE  LET y == WithReservation(x, c) IN
           /\ y \in Monitors /\ y.order = x.order /\ y.at = x.at /\ y.won = x.won /\ y.call = c
           /\ y.reservation /\ y.unkept = x.unkept
BY Zenon DEF Monitors, WithReservation

LEMMA ReservationUnkept ==
    ASSUME NEW x \in Monitors
    PROVE  LET y == WithUnkept(x) IN
           /\ y \in Monitors /\ y.order = x.order /\ y.at = x.at /\ y.won = x.won /\ y.call = x.call
           /\ y.reservation = x.reservation /\ y.unkept
BY Zenon DEF Monitors, WithUnkept

-----------------------------------------------------------------------------
(* Leases: what the log says *)

Types == {"created", "won", "lost", "closed"}
MarketStates == {"none", "open", "mine", "lost", "closed", "leased", "gone"}

\* The event at place i of the log says that order o was created.
CreatedAt(i, o) == i \in DOMAIN log /\ log[i].type = "created" /\ log[i].order = o

\* Before place c, the log says that order o was matched or closed.
EndedBefore(o, c) == \E k \in DOMAIN log : k < c /\ log[k].order = o /\ log[k].type # "created"

\* Two orders of a group that is none of the crowded ones.
SameGroup(o, p, busy) == o # p /\ GroupOf[o] = GroupOf[p] /\ GroupOf[o] \notin busy

\* The chain, and how far the log was read.
WorldOK ==
    /\ market \in [Orders -> MarketStates] /\ bids \subseteq Orders
    /\ announced \in [Orders -> Nat] /\ orders \in [Orders -> Nat]
    /\ svc = "starting" => pos = 0
    /\ pos <= Len(log) /\ \A m \in DOMAIN mon : mon[m].pos <= Len(log)

\* The log tells what becomes of an order, which is created before all else and once.
LogOfOrder ==
    /\ \A i \in DOMAIN log : market[log[i].order] # "none"
    /\ \A i \in DOMAIN log : log[i].type # "created" => market[log[i].order] \notin {"none", "open"}
    /\ \A i, k \in DOMAIN log : log[i].type = "created" /\ log[k].order = log[i].order => i <= k
    /\ \A i \in DOMAIN log :
          log[i].type = "created" /\ (\A k \in DOMAIN log : i < k => log[k].order # log[i].order) =>
             market[log[i].order] = "open"
    /\ \A o \in Orders :
          (\A i \in DOMAIN log : log[i].order # o) => market[o] \in {"none", "open", "leased", "gone"}

\* Unless two of them were open at a time: an order that is created finds the others of its
\* group over, and while it is open none of them is matched.
LogOfGroup ==
    /\ \A c \in DOMAIN log, o \in Orders :
          log[c].type = "created" /\ SameGroup(log[c].order, o, crowded)
          /\ market[log[c].order] = "open" =>
             market[o] = "none" \/ Over(o) \/ EndedBefore(o, c)
    /\ \A c, j \in DOMAIN log :
          /\ log[c].type = "created" /\ log[j].type = "won" /\ c < j
          /\ SameGroup(log[c].order, log[j].order, crowded)
          => \E k \in DOMAIN log : c < k /\ k < j /\ log[k].order = log[c].order

\* A lease of this provider is the outcome of a bid; the bids on orders that were created since
\* the service subscribed are those of its monitors, which have reserved resources for them.
LogOfBids ==
    /\ \A i \in DOMAIN log : log[i].type = "won" => log[i].order \in bids
    /\ \A o \in bids : market[o] # "none"
    /\ \A i \in DOMAIN log : log[i].type = "created" /\ log[i].order \in bids =>
          \E m \in DOMAIN mon : /\ mon[m].order = log[i].order /\ ~mon[m].bid
                                /\ mon[m].reservation /\ mon[m].group

\* n is the place of a new event of type t about o, whose state becomes s.
Told(n, t, o, s) ==
    /\ n \notin DOMAIN log /\ DOMAIN log' = DOMAIN log \cup {n}
    /\ log'[n].type = t /\ log'[n].order = o
    /\ \A i \in DOMAIN log : log'[i] = log[i] /\ log[i].order \in Orders
    /\ \A i \in DOMAIN log : i < n /\ i <= n /\ ~(n < i) /\ ~(n <= i)
    /\ n <= n /\ ~(n < n)
    /\ o \in Orders /\ market'[o] = s /\ \A p \in Orders : p # o => market'[p] = market[p]
    /\ crowded \subseteq crowded' /\ (Over(o) => s = "gone")
    /\ \/ /\ t = "created" /\ s = "open" /\ market[o] = "none"
          /\ \A p \in Orders : SameGroup(o, p, crowded') => market[p] # "open"
       \/ /\ t # "created" /\ market[o] # "none" /\ s \notin {"none", "open"}
          /\ t = "won" => market[o] = "open" /\ o \in bids

\* What the log says of an order stays true.
LEMMA ToldOrder ==
    ASSUME LogOfOrder, NEW n, NEW t, NEW o, NEW s, Told(n, t, o, s)
    PROVE  LogOfOrder'
<1>1. \A i \in DOMAIN log' : market'[log'[i].order] # "none"
  BY DEF LogOfOrder, Told
<1>2. \A i \in DOMAIN log' : log'[i].type # "created" => market'[log'[i].order] \notin {"none", "open"}
  BY DEF LogOfOrder, Told
<1>3. \A i, k \in DOMAIN log' : log'[i].type = "created" /\ log'[k].order = log'[i].order => i <= k
  BY DEF LogOfOrder, Told
<1>4. \A i \in DOMAIN log' :
         log'[i].type = "created" /\ (\A k \in DOMAIN log' : i < k => log'[k].order # log'[i].order) =>
            market'[log'[i].order] = "open"
  BY DEF LogOfOrder, Told
<1>5. \A p \in Orders :
         (\A i \in DOMAIN log' : log'[i].order # p) => market'[p] \in {"none", "open", "leased", "gone"}
  BY DEF LogOfOrder, Told
<1> QED BY <1>1, <1>2, <1>3, <1>4, <1>5, Zenon DEF LogOfOrder

\* The groups that are not crowded were not.
LEMMA CrowdedStays ==
    ASSUME NEW n, NEW t, NEW o, NEW s, Told(n, t, o, s)
    PROVE  \A p, q : SameGroup(p, q, crowded') => SameGroup(p, q, crowded)
BY Zenon DEF Told, SameGroup

\* An order that was over stays so, and so does what was said of it.
LEMMA OverStays ==
    ASSUME NEW n, NEW t, NEW o, NEW s, Told(n, t, o, s), NEW p \in Orders
    PROVE  /\ Over(p) => Over(p)'
           /\ \A c : EndedBefore(p, c) => EndedBefore(p, c)'
<1>1. Over(p) => Over(p)'
  <2>1. CASE p = o
    BY <2>1 DEF Told, Over
  <2>2. CASE p # o
    BY <2>2, Zenon DEF Told, Over
  <2> QED BY <2>1, <2>2
<1>2. ASSUME NEW c, EndedBefore(p, c) PROVE EndedBefore(p, c)'
  BY <1>2, ZenonT(30) DEF Told, EndedBefore
<1> QED BY <1>1, <1>2, Zenon

\* The orders that a new one finds in its group.
LEMMA CreatedLast ==
    ASSUME LogOfOrder, DOMAIN log \subseteq Nat, NEW n, NEW o, NEW s, Told(n, "created", o, s),
           NEW p \in Orders, SameGroup(o, p, crowded')
    PROVE  market[p] = "none" \/ Over(p)' \/ EndedBefore(p, n)'
<1>1. market[p] # "open"
  BY Zenon DEF Told
<1>2. CASE \A i \in DOMAIN log : log[i].order # p
  <2>1. market[p] = "none" \/ Over(p)
    BY <1>1, <1>2 DEF LogOfOrder, Over
  <2> QED BY <1>2, <2>1, OverStays, Zenon
<1>3. ASSUME NEW i \in DOMAIN log, log[i].order = p PROVE EndedBefore(p, n)
  <2>1. CASE log[i].type # "created"
    BY <1>3, <2>1, Zenon DEF EndedBefore, Told
  <2>2. CASE log[i].type = "created"
    <3>1. PICK k \in DOMAIN log : i < k /\ log[k].order = p
      BY <1>1, <1>3, <2>2, Zenon DEF LogOfOrder
    <3>2. log[k].type # "created"
      <4>1. ~(k <= i)
        BY <3>1
      <4> QED BY <1>3, <3>1, <4>1, Zenon DEF LogOfOrder
    <3> QED BY <3>1, <3>2, Zenon DEF EndedBefore, Told
  <2> QED BY <2>1, <2>2
<1> QED BY <1>2, <1>3, OverStays, Zenon

\* What the log says of a group stays true.
LEMMA ToldGroup ==
    ASSUME LogOfOrder, LogOfGroup, DOMAIN log \subseteq Nat,
           NEW n, NEW t, NEW o, NEW s, Told(n, t, o, s)
    PROVE  LogOfGroup'
<1>1. ASSUME NEW c \in DOMAIN log', NEW p \in Orders, log'[c].type = "created",
             SameGroup(log'[c].order, p, crowded'), market'[log'[c].order] = "open"
      PROVE  market'[p] = "none" \/ Over(p)' \/ EndedBefore(p, c)'
  <2>1. CASE c = n
    <3>1. t = "created" /\ SameGroup(o, p, crowded')
      BY <1>1, <2>1, Zenon DEF Told
    <3>2. market'[p] = market[p]
      BY <3>1, Zenon DEF Told, SameGroup
    <3> QED BY <2>1, <3>1, <3>2, CreatedLast, Zenon
  <2>2. CASE c \in DOMAIN log
    <3>1. /\ log[c].type = "created" /\ SameGroup(log[c].order, p, crowded')
          /\ market'[log[c].order] = "open"
          /\ market[log[c].order] # "none" /\ log[c].order \in Orders
      BY <1>1, <2>2, Zenon DEF Told, LogOfOrder
    <3>2. log[c].order # o /\ market[log[c].order] = "open"
      BY <3>1, Zenon DEF Told
    <3>3. market[p] = "none" \/ Over(p) \/ EndedBefore(p, c)
      BY <2>2, <3>1, <3>2, CrowdedStays, Zenon DEF LogOfGroup
    <3>4. CASE market[p] = "none"
      <4>1. p # o
        <5>1. SameGroup(o, log[c].order, crowded') => t # "created"
          BY <3>1, <3>2, Zenon DEF Told
        <5>2. p = o => SameGroup(o, log[c].order, crowded')
          BY <3>1, Zenon DEF SameGroup
        <5> QED BY <3>4, <5>1, <5>2, Zenon DEF Told
      <4> QED BY <3>4, <4>1, Zenon DEF Told
    <3> QED BY <3>3, <3>4, OverStays, Zenon
  <2> QED BY <2>1, <2>2 DEF Told
<1>2. ASSUME NEW c \in DOMAIN log', NEW j \in DOMAIN log', log'[c].type = "created",
             log'[j].type = "won", c < j, SameGroup(log'[c].order, log'[j].order, crowded')
      PROVE  \E k \in DOMAIN log' : c < k /\ k < j /\ log'[k].order = log'[c].order
  <2>1. c \in DOMAIN log /\ log[c].type = "created" /\ log'[c] = log[c]
    <3>1. c # n
      BY <1>2, Zenon DEF Told
    <3> QED BY <1>2, <3>1 DEF Told
  <2>2. CASE j = n
    <3>1. market[o] = "open" /\ SameGroup(log[c].order, o, crowded) /\ o \in Orders
      <4>1. SameGroup(log[c].order, o, crowded')
        BY <1>2, <2>1, <2>2, Zenon DEF Told
      <4>2. SameGroup(log[c].order, o, crowded)
        BY <4>1, CrowdedStays, Zenon
      <4> QED BY <1>2, <2>2, <4>2, Zenon DEF Told
    <3>2. ~(market[o] = "none" \/ Over(o) \/ EndedBefore(o, c))
      <4>1. ~EndedBefore(o, c)
        BY <3>1, ZenonT(30) DEF EndedBefore, LogOfOrder
      <4> QED BY <3>1, <4>1 DEF Over
    <3>3. market[log[c].order] # "open"
      BY <2>1, <3>1, <3>2, Zenon DEF LogOfGroup
    <3>4. PICK k \in DOMAIN log : c < k /\ log[k].order = log[c].order
      BY <2>1, <3>3, Zenon DEF LogOfOrder
    <3> QED BY <2>1, <2>2, <3>4, Zenon DEF Told
  <2>3. CASE j \in DOMAIN log
    <3>1. \E k \in DOMAIN log : c < k /\ k < j /\ log[k].order = log[c].order
      <4>1. log[j].type = "won" /\ SameGroup(log[c].order, log[j].order, crowded')
        BY <1>2, <2>1, <2>3, Zenon DEF Told
      <4>2. SameGroup(log[c].order, log[j].order, crowded)
        BY <4>1, CrowdedStays, Zenon
      <4> QED BY <1>2, <2>1, <2>3, <4>1, <4>2, Zenon DEF LogOfGroup
    <3> QED BY <2>1, <3>1 DEF Told
  <2> QED BY <2>2, <2>3 DEF Told
<1> QED BY <1>1, <1>2, Zenon DEF LogOfGroup

\* What the log says of bids stays true.
LEMMA ToldBids ==
    ASSUME LogOfBids, NEW n, NEW t, NEW o, NEW s, Told(n, t, o, s), UNCHANGED <<mon, bids>>,
           bids \subseteq Orders
    PROVE  LogOfBids'
<1>1. \A i \in DOMAIN log' : log'[i].type = "won" => log'[i].order \in bids
  BY Zenon DEF LogOfBids, Told
<1>2. \A p \in bids : market'[p] # "none"
  BY Zenon DEF LogOfBids, Told
<1>3. ASSUME NEW i \in DOMAIN log', log'[i].type = "created", log'[i].order \in bids
      PROVE  \E m \in DOMAIN mon : /\ mon[m].order = log'[i].order /\ ~mon[m].bid
                                   /\ mon[m].reservation /\ mon[m].group
  <2>1. i \in DOMAIN log /\ log'[i] = log[i]
    BY <1>3, ZenonT(30) DEF LogOfBids, Told
  <2> QED BY <1>3, <2>1, Zenon DEF LogOfBids
<1> QED BY <1>1, <1>2, <1>3, Zenon DEF LogOfBids

-----------------------------------------------------------------------------
(* Leases: what the monitors know *)

\* A monitor bids with a reservation, which needs the group, and ends its loop when it wins,
\* with the reservation unless its group is one of the crowded ones.
Equipped(x, busy) ==
    /\ x.call.op = "bid" => ~x.bid /\ x.reservation
    /\ x.call.op = "reserve" \/ x.reservation => x.group
    /\ x.at = "loop" => ~x.won
    /\ x.won /\ ~x.bid => x.reservation \/ GroupOf[x.order] \in busy

\* The monitors that events started: one for an order, which reads what follows its event.
Started ==
    /\ \A m \in DOMAIN mon :
          ~mon[m].bid => \E c \in DOMAIN log : c <= pos /\ CreatedAt(c, mon[m].order)
    /\ \A m, n \in DOMAIN mon :
          ~mon[m].bid /\ ~mon[n].bid /\ mon[m].order = mon[n].order => m = n
    /\ \A m \in DOMAIN mon, c \in DOMAIN log :
          ~mon[m].bid /\ mon[m].at = "loop" /\ CreatedAt(c, mon[m].order) =>
             /\ c <= mon[m].pos
             /\ \A k \in DOMAIN log : c < k /\ k <= mon[m].pos => log[k].order # mon[m].order

\* The monitors that the query started: their order is older than the orders of its group that
\* are created while they run, and has ended unless they were over before.
Recovered ==
    /\ \A m \in DOMAIN mon : mon[m].bid => market[mon[m].order] # "none"
    /\ \A m \in DOMAIN mon, k \in DOMAIN log :
          /\ mon[m].bid /\ mon[m].at = "loop" /\ k <= mon[m].pos /\ log[k].order = mon[m].order
          => log[k].type = "created"
    /\ \A m \in DOMAIN mon, c \in DOMAIN log :
          mon[m].bid /\ log[c].type = "created" /\ SameGroup(log[c].order, mon[m].order, crowded) =>
             \/ Over(mon[m].order) \/ EndedBefore(mon[m].order, c)
             \/ log[c].order \notin bids /\ market[log[c].order] \notin {"none", "open"}

\* The query started one monitor at most.
Alone == \A m, n \in DOMAIN mon : mon[m].bid /\ mon[n].bid => m = n

\* While it is kept, its order gets no monitor from an event.
OneAtATime ==
    Alone => \A m \in DOMAIN mon : mon[m].bid /\ mon[m].at # "drained" =>
                /\ orders[mon[m].order] # 0
                /\ \A n \in DOMAIN mon : mon[n].order = mon[m].order => mon[n].bid

\* Monitor m may have announced the lease of o.
Announcer(m, o) ==
    /\ mon[m].won
    /\ \/ GroupOf[o] \in crowded
       \/ IF mon[m].bid THEN ~Alone \/ Over(mon[m].order) \/ \A i \in DOMAIN log : ~CreatedAt(i, o)
                        ELSE mon[m].order = o

Announcements ==
    \A o \in Orders :
       /\ announced[o] > 0 => market[o] # "none" /\ \E m \in DOMAIN mon : Announcer(m, o)
       /\ announced[o] > 1 => \/ ~Alone \/ GroupOf[o] \in crowded
                              \/ \E m \in DOMAIN mon : mon[m].bid /\ Over(mon[m].order)

\* The orders of the monitors are orders.
Ordered == \A m \in DOMAIN mon : mon[m].order \in Orders

LEMMA ToldStarted ==
    ASSUME LogOfOrder, Started, NEW n, NEW t, NEW o, NEW s, Told(n, t, o, s),
           UNCHANGED <<mon, pos>>, \A m \in DOMAIN mon : ~(n <= mon[m].pos)
    PROVE  Started'
<1>1. ASSUME NEW m \in DOMAIN mon, ~mon[m].bid
      PROVE  \E c \in DOMAIN log' : c <= pos /\ CreatedAt(c, mon[m].order)'
  <2>1. PICK c \in DOMAIN log : c <= pos /\ CreatedAt(c, mon[m].order)
    BY <1>1, Zenon DEF Started
  <2> QED BY <2>1, ZenonT(30) DEF CreatedAt, Told
<1>2. ASSUME NEW m \in DOMAIN mon, NEW c \in DOMAIN log', ~mon[m].bid, mon[m].at = "loop",
             CreatedAt(c, mon[m].order)'
      PROVE  /\ c <= mon[m].pos
             /\ \A k \in DOMAIN log' : c < k /\ k <= mon[m].pos => log'[k].order # mon[m].order
  <2>1. PICK d \in DOMAIN log : CreatedAt(d, mon[m].order)
    BY <1>2, Zenon DEF Started
  <2>2. market[mon[m].order] # "none"
    BY <2>1 DEF CreatedAt, LogOfOrder
  <2>3. c # n
    BY <1>2, <2>2, Zenon DEF CreatedAt, Told
  <2>4. c \in DOMAIN log /\ CreatedAt(c, mon[m].order)
    BY <1>2, <2>3 DEF CreatedAt, Told
  <2>5. /\ c <= mon[m].pos
        /\ \A k \in DOMAIN log : c < k /\ k <= mon[m].pos => log[k].order # mon[m].order
    BY <1>2, <2>4, Zenon DEF Started
  <2> QED BY <2>5, Zenon DEF Told
<1> QED BY <1>1, <1>2 DEF Started, CreatedAt

LEMMA ToldRecovered ==
    ASSUME LogOfOrder, DOMAIN log \subseteq Nat, Recovered, Ordered,
           NEW n, NEW t, NEW o, NEW s, Told(n, t, o, s),
           UNCHANGED <<mon, bids>>, \A m \in DOMAIN mon : ~(n <= mon[m].pos)
    PROVE  Recovered'
<1>1. \A m \in DOMAIN mon : mon[m].bid => market'[mon[m].order] # "none"
  BY DEF Recovered, Ordered, Told
<1>2. \A m \in DOMAIN mon, k \in DOMAIN log' :
         /\ mon[m].bid /\ mon[m].at = "loop" /\ k <= mon[m].pos /\ log'[k].order = mon[m].order
         => log'[k].type = "created"
  BY DEF Recovered, Told
<1>3. ASSUME NEW m \in DOMAIN mon, NEW c \in DOMAIN log', mon[m].bid, log'[c].type = "created",
             SameGroup(log'[c].order, mon[m].order, crowded')
      PROVE  \/ Over(mon[m].order)' \/ EndedBefore(mon[m].order, c)'
             \/ log'[c].order \notin bids /\ market'[log'[c].order] \notin {"none", "open"}
  <2>1. mon[m].order \in Orders /\ market[mon[m].order] # "none"
    BY <1>3, Zenon DEF Ordered, Recovered
  <2>2. CASE c = n
    <3>1. t = "created" /\ SameGroup(o, mon[m].order, crowded')
      BY <1>3, <2>2, Zenon DEF Told
    <3>2. Over(mon[m].order)' \/ EndedBefore(mon[m].order, n)'
      <4>1. \A p \in Orders :
               SameGroup(o, p, crowded') => market[p] = "none" \/ Over(p)' \/ EndedBefore(p, n)'
        BY <3>1, CreatedLast
      <4> QED BY <2>1, <3>1, <4>1, Zenon
    <3> QED BY <2>2, <3>2, Zenon
  <2>3. CASE c \in DOMAIN log
    <3>1. log'[c] = log[c] /\ log[c].order \in Orders /\ market[log[c].order] # "none"
      BY <2>3, Zenon DEF Told, LogOfOrder
    <3>2. \/ Over(mon[m].order) \/ EndedBefore(mon[m].order, c)
          \/ log[c].order \notin bids /\ market[log[c].order] \notin {"none", "open"}
      BY <1>3, <2>3, <3>1, CrowdedStays, Zenon DEF Recovered
    <3>3. ASSUME market[log[c].order] \notin {"none", "open"}
          PROVE  market'[log[c].order] \notin {"none", "open"}
      BY <3>1, <3>3, Zenon DEF Told
    <3> QED BY <2>1, <3>1, <3>2, <3>3, OverStays, Zenon
  <2> QED BY <2>2, <2>3 DEF Told
<1>4. mon' = mon /\ bids' = bids
  OBVIOUS
<1> QED BY <1>1, <1>2, <1>3, <1>4, Zenon DEF Recovered

LEMMA ToldAnnouncements ==
    ASSUME Announcements, Ordered, NEW n, NEW t, NEW o, NEW s, Told(n, t, o, s),
           UNCHANGED <<mon, announced>>
    PROVE  Announcements'
<1>1. Alone' = Alone
  BY Zenon DEF Alone
<1>2. ASSUME NEW p \in Orders, announced[p] > 0
      PROVE  market'[p] # "none" /\ \E m \in DOMAIN mon : Announcer(m, p)'
  <2>1. market[p] # "none"
    BY <1>2, Zenon DEF Announcements
  <2>2. market'[p] # "none"
    BY <2>1, Zenon DEF Told
  <2>3. PICK m \in DOMAIN mon : Announcer(m, p)
    BY <1>2, Zenon DEF Announcements
  <2>4. ASSUME \A i \in DOMAIN log : ~CreatedAt(i, p)
        PROVE  \A i \in DOMAIN log' : ~CreatedAt(i, p)'
    BY <2>1, <2>4 DEF CreatedAt, Told
  <2>5. Over(mon[m].order) => Over(mon[m].order)'
    <3>1. mon[m].order \in Orders
      BY Zenon DEF Ordered
    <3> QED BY <3>1, OverStays, Zenon
  <2>6. GroupOf[p] \in crowded => GroupOf[p] \in crowded'
    BY Zenon DEF Told
  <2>7. Announcer(m, p)'
    BY <1>1, <2>3, <2>4, <2>5, <2>6, Zenon DEF Announcer
  <2> QED BY <2>2, <2>7, Zenon
<1>3. ASSUME NEW p \in Orders, announced[p] > 1
      PROVE  \/ ~Alone \/ GroupOf[p] \in crowded'
             \/ \E m \in DOMAIN mon : mon[m].bid /\ Over(mon[m].order)'
  <2>1. CASE ~Alone
    BY <2>1
  <2>2. ASSUME NEW m \in DOMAIN mon, mon[m].bid, Over(mon[m].order)
        PROVE  Over(mon[m].order)'
    <3>1. mon[m].order \in Orders
      BY Zenon DEF Ordered
    <3> QED BY <2>2, <3>1, OverStays, Zenon
  <2>3. GroupOf[p] \in crowded => GroupOf[p] \in crowded'
    BY Zenon DEF Told
  <2> QED BY <1>3, <2>1, <2>2, <2>3, Zenon DEF Announcements
<1> QED BY <1>1, <1>2, <1>3, Zenon DEF Announcements

-----------------------------------------------------------------------------
(* Leases: a monitor changes *)

\* y is what becomes of the monitor x: it loses nothing that it has.
Grows(y, x) ==
    /\ y.order = x.order /\ y.bid = x.bid
    /\ x.group => y.group
    /\ x.reservation => y.reservation
    /\ x.won => y.won

\* What y has read and monitor m has not says nothing of its order but that it was created.
Advances(m, y) ==
    y.at = "loop" =>
       /\ \A k \in DOMAIN log : k <= mon[m].pos => k <= y.pos
       /\ \A k \in DOMAIN log :
             k <= y.pos => k <= mon[m].pos \/ (log[k].order = y.order => log[k].type = "created")

\* Monitor m becomes y; what the log says stays the same.
Moved(m, y) ==
    /\ m \in DOMAIN mon /\ DOMAIN mon' = DOMAIN mon /\ mon'[m] = y
    /\ \A i \in DOMAIN mon : i # m => mon'[i] = mon[i]
    /\ Grows(y, mon[m]) /\ Advances(m, y)
    /\ y.at = "loop" => mon[m].at = "loop"
    /\ y.at # "drained" => mon[m].at # "drained"
    /\ log' = log /\ market' = market /\ crowded' = crowded /\ svc' = svc /\ pos' = pos

\* Monitors stay what they are.
LEMMA MovedGrows ==
    ASSUME NEW m, NEW y, Moved(m, y)
    PROVE  /\ DOMAIN mon' = DOMAIN mon
           /\ \A i \in DOMAIN mon : /\ Grows(mon'[i], mon[i])
                                    /\ mon'[i].order = mon[i].order /\ mon'[i].bid = mon[i].bid
                                    /\ mon[i].won => mon'[i].won
           /\ \A i \in DOMAIN mon : mon'[i].at = "loop" => mon[i].at = "loop"
           /\ \A i \in DOMAIN mon : mon'[i].at # "drained" => mon[i].at # "drained"
<1>1. ASSUME NEW i \in DOMAIN mon PROVE Grows(mon'[i], mon[i])
  BY Zenon DEF Moved, Grows
<1>2. ASSUME NEW i \in DOMAIN mon
      PROVE  /\ mon'[i].at = "loop" => mon[i].at = "loop"
             /\ mon'[i].at # "drained" => mon[i].at # "drained"
  BY DEF Moved
<1>3. \A i \in DOMAIN mon : /\ mon'[i].order = mon[i].order /\ mon'[i].bid = mon[i].bid
                            /\ mon[i].won => mon'[i].won
  BY <1>1, Zenon DEF Grows
<1> QED BY <1>1, <1>2, <1>3, Zenon DEF Moved

\* The log and the chain are as before, and what they say.
LEMMA LogSame ==
    ASSUME log' = log, market' = market, crowded' = crowded
    PROVE  /\ \A o : Over(o)' <=> Over(o)
           /\ \A o, c : EndedBefore(o, c)' <=> EndedBefore(o, c)
           /\ \A i, o : CreatedAt(i, o)' <=> CreatedAt(i, o)
           /\ LogOfOrder => LogOfOrder'
           /\ LogOfGroup => LogOfGroup'
<1>1. \A o : Over(o)' <=> Over(o)
  BY Zenon DEF Over
<1>2. \A o, c : EndedBefore(o, c)' <=> EndedBefore(o, c)
  BY Zenon DEF EndedBefore
<1>3. \A i, o : CreatedAt(i, o)' <=> CreatedAt(i, o)
  BY Zenon DEF CreatedAt
<1>4. LogOfOrder => LogOfOrder'
  BY Zenon DEF LogOfOrder
<1>5. LogOfGroup => LogOfGroup'
  BY <1>1, <1>2 DEF LogOfGroup
<1> QED BY <1>1, <1>2, <1>3, <1>4, <1>5, Zenon

\* A bid that the chain accepts is one of a monitor with a reservation.
Bids(y) ==
    \/ bids' = bids
    \/ /\ bids' = bids \cup {y.order} /\ market[y.order] = "open"
       /\ ~y.bid /\ y.reservation /\ y.group

LEMMA MovedBids ==
    ASSUME LogOfBids, NEW m, NEW y, Moved(m, y), Bids(y)
    PROVE  LogOfBids'
<1>1. log' = log /\ market' = market /\ m \in DOMAIN mon /\ DOMAIN mon' = DOMAIN mon /\ mon'[m] = y
  BY Zenon DEF Moved
<1>2. \A i \in DOMAIN log : log[i].type = "won" => log[i].order \in bids'
  BY DEF LogOfBids, Bids
<1>3. \A o \in bids' : market[o] # "none"
  BY DEF LogOfBids, Bids
<1>4. ASSUME NEW i \in DOMAIN log, log[i].type = "created", log[i].order \in bids'
      PROVE  \E k \in DOMAIN mon' : /\ mon'[k].order = log[i].order /\ ~mon'[k].bid
                                    /\ mon'[k].reservation /\ mon'[k].group
  <2>1. CASE log[i].order \in bids
    <3>1. PICK k \in DOMAIN mon : /\ mon[k].order = log[i].order /\ ~mon[k].bid
                                  /\ mon[k].reservation /\ mon[k].group
      BY <1>4, <2>1, Zenon DEF LogOfBids
    <3>2. Grows(mon'[k], mon[k])
      BY MovedGrows, Zenon
    <3> QED BY <1>1, <3>1, <3>2, Zenon DEF Grows
  <2>2. CASE log[i].order \notin bids
    <3>1. log[i].order = y.order /\ ~y.bid /\ y.reservation /\ y.group
      BY <1>4, <2>2 DEF Bids
    <3> QED BY <1>1, <3>1, Zenon
  <2> QED BY <2>1, <2>2
<1> QED BY <1>1, <1>2, <1>3, <1>4, Zenon DEF LogOfBids

LEMMA MovedStarted ==
    ASSUME LogOfOrder, DOMAIN log \subseteq Nat, Started, NEW m, NEW y, Moved(m, y)
    PROVE  Started'
<1>1. log' = log /\ market' = market /\ crowded' = crowded /\ pos' = pos
  BY Zenon DEF Moved
<1>2. /\ DOMAIN mon' = DOMAIN mon
      /\ \A i \in DOMAIN mon : mon'[i].order = mon[i].order /\ mon'[i].bid = mon[i].bid
      /\ \A i \in DOMAIN mon : mon'[i].at = "loop" => mon[i].at = "loop"
  BY MovedGrows, Zenon
<1>3. \A i, o : CreatedAt(i, o)' <=> CreatedAt(i, o)
  BY <1>1, LogSame, Zenon
<1>4. ASSUME NEW i \in DOMAIN mon, ~mon[i].bid
      PROVE  \E c \in DOMAIN log : c <= pos /\ CreatedAt(c, mon[i].order)
  BY <1>4, Zenon DEF Started
<1>5. \A i, j \in DOMAIN mon : ~mon[i].bid /\ ~mon[j].bid /\ mon[i].order = mon[j].order => i = j
  BY Zenon DEF Started
<1>6. ASSUME NEW i \in DOMAIN mon, NEW c \in DOMAIN log, ~mon[i].bid, mon'[i].at = "loop",
             CreatedAt(c, mon[i].order)
      PROVE  /\ c <= mon'[i].pos
             /\ \A k \in DOMAIN log : c < k /\ k <= mon'[i].pos => log[k].order # mon[i].order
  <2>1. /\ c <= mon[i].pos
        /\ \A k \in DOMAIN log : c < k /\ k <= mon[i].pos => log[k].order # mon[i].order
    BY <1>2, <1>6, Zenon DEF Started
  <2>2. CASE i # m
    BY <2>1, <2>2, Zenon DEF Moved
  <2>3. CASE i = m
    <3>1. /\ \A k \in DOMAIN log : k <= mon[m].pos => k <= y.pos
          /\ \A k \in DOMAIN log :
                k <= y.pos => k <= mon[m].pos \/ (log[k].order = y.order => log[k].type = "created")
          /\ mon'[m] = y /\ y.order = mon[m].order
      BY <1>2, <1>6, <2>3, Zenon DEF Moved, Advances
    <3>2. ASSUME NEW k \in DOMAIN log, c < k, k <= y.pos PROVE log[k].order # mon[m].order
      <4>1. ~(k <= c)
        BY <3>2
      <4>2. log[k].order = mon[m].order => log[k].type # "created"
        <5>1. log[c].order = mon[m].order
          BY <1>6, <2>3, Zenon DEF CreatedAt
        <5> QED BY <4>1, <5>1, Zenon DEF LogOfOrder
      <4> QED BY <2>1, <2>3, <3>1, <3>2, <4>2, Zenon
    <3> QED BY <2>1, <2>3, <3>1, <3>2, Zenon
  <2> QED BY <2>2, <2>3
<1>7. \A i \in DOMAIN mon' :
         ~mon'[i].bid => \E c \in DOMAIN log' : c <= pos' /\ CreatedAt(c, mon[i].order)
  BY <1>1, <1>2, <1>4, Zenon
<1>8. \A i \in DOMAIN mon', c \in DOMAIN log' :
         ~mon'[i].bid /\ mon'[i].at = "loop" /\ CreatedAt(c, mon[i].order) =>
             /\ c <= mon'[i].pos
             /\ \A k \in DOMAIN log' : c < k /\ k <= mon'[i].pos => log'[k].order # mon'[i].order
  BY <1>1, <1>2, <1>6, Zenon
<1>9. \A c : \A i \in DOMAIN mon' : CreatedAt(c, mon[i].order) <=> CreatedAt(c, mon[i].order)'
  BY <1>2, <1>3, Zenon
<1> QED BY <1>2, <1>5, <1>7, <1>8, <1>9, ZenonT(30) DEF Started

LEMMA MovedRecovered ==
    ASSUME Recovered, NEW m, NEW y, Moved(m, y), Bids(y)
    PROVE  Recovered'
<1>1. log' = log /\ market' = market /\ crowded' = crowded
  BY Zenon DEF Moved
<1>2. /\ DOMAIN mon' = DOMAIN mon
      /\ \A i \in DOMAIN mon : mon'[i].order = mon[i].order /\ mon'[i].bid = mon[i].bid
      /\ \A i \in DOMAIN mon : mon'[i].at = "loop" => mon[i].at = "loop"
  BY MovedGrows, Zenon
<1>3. \A i \in DOMAIN mon' : mon'[i].bid => market'[mon'[i].order] # "none"
  BY <1>1, <1>2, Zenon DEF Recovered
<1>4. ASSUME NEW i \in DOMAIN mon, NEW k \in DOMAIN log, mon[i].bid, mon'[i].at = "loop",
             k <= mon'[i].pos, log[k].order = mon[i].order
      PROVE  log[k].type = "created"
  <2>1. k <= mon[i].pos => log[k].type = "created"
    BY <1>2, <1>4, Zenon DEF Recovered
  <2>2. i = m => k <= mon[m].pos \/ log[k].type = "created"
    BY <1>2, <1>4, Zenon DEF Moved, Advances
  <2>3. i # m => mon'[i] = mon[i]
    BY Zenon DEF Moved
  <2> QED BY <1>4, <2>1, <2>2, <2>3, Zenon
<1>5. ASSUME NEW i \in DOMAIN mon, NEW c \in DOMAIN log, mon[i].bid, log[c].type = "created",
             SameGroup(log[c].order, mon[i].order, crowded)
      PROVE  \/ Over(mon[i].order) \/ EndedBefore(mon[i].order, c)
             \/ log[c].order \notin bids' /\ market[log[c].order] \notin {"none", "open"}
  <2>1. \/ Over(mon[i].order) \/ EndedBefore(mon[i].order, c)
        \/ log[c].order \notin bids /\ market[log[c].order] \notin {"none", "open"}
    BY <1>5, Zenon DEF Recovered
  <2>2. ASSUME log[c].order \notin bids, market[log[c].order] # "open" PROVE log[c].order \notin bids'
    BY <2>2, Zenon DEF Bids
  <2> QED BY <2>1, <2>2, Zenon
<1>6. \A i \in DOMAIN mon', k \in DOMAIN log' :
         /\ mon'[i].bid /\ mon'[i].at = "loop" /\ k <= mon'[i].pos /\ log'[k].order = mon'[i].order
         => log'[k].type = "created"
  BY <1>1, <1>2, <1>4, Zenon
<1>7. \A i \in DOMAIN mon', c \in DOMAIN log' :
         mon'[i].bid /\ log'[c].type = "created" /\ SameGroup(log'[c].order, mon'[i].order, crowded') =>
             \/ Over(mon[i].order) \/ EndedBefore(mon[i].order, c)
             \/ log'[c].order \notin bids' /\ market'[log'[c].order] \notin {"none", "open"}
  BY <1>1, <1>2, <1>5, ZenonT(30)
<1>8. \A c : \A i \in DOMAIN mon' : /\ Over(mon[i].order) <=> Over(mon[i].order)'
                                    /\ EndedBefore(mon[i].order, c) <=> EndedBefore(mon[i].order, c)'
  BY <1>1, <1>2, LogSame, Zenon
<1> QED BY <1>3, <1>6, <1>7, <1>8, Zenon DEF Recovered

\* A monitor that the service receives has no entry any more.
Entries(y) ==
    \/ orders' = orders
    \/ y.at = "drained" /\ \A o \in Orders : o # y.order => orders'[o] = orders[o]

LEMMA MovedOne ==
    ASSUME OneAtATime, Ordered, NEW m, NEW y, Moved(m, y), Entries(y)
    PROVE  OneAtATime' /\ Ordered' /\ (Alone' <=> Alone)
<1>1. /\ DOMAIN mon' = DOMAIN mon
      /\ \A i \in DOMAIN mon : mon'[i].order = mon[i].order /\ mon'[i].bid = mon[i].bid
      /\ \A i \in DOMAIN mon : mon'[i].at # "drained" => mon[i].at # "drained"
  BY MovedGrows, Zenon
<1>2. Alone' <=> Alone
  BY <1>1, Zenon DEF Alone
<1>3. Ordered'
  BY <1>1, Zenon DEF Ordered
<1>4. ASSUME Alone, NEW i \in DOMAIN mon, mon[i].bid, mon'[i].at # "drained"
      PROVE  orders'[mon[i].order] # 0 /\ \A n \in DOMAIN mon : mon[n].order = mon[i].order => mon[n].bid
  <2>1. /\ orders[mon[i].order] # 0 /\ mon[i].order \in Orders
        /\ \A n \in DOMAIN mon : mon[n].order = mon[i].order => mon[n].bid
    BY <1>1, <1>4, Zenon DEF OneAtATime, Ordered
  <2>2. CASE orders' = orders
    BY <2>1, <2>2, Zenon
  <2>3. CASE y.at = "drained" /\ \A o \in Orders : o # y.order => orders'[o] = orders[o]
    <3>1. i # m /\ m \in DOMAIN mon /\ y.order = mon[m].order
      BY <1>1, <1>4, <2>3, Zenon DEF Moved
    <3>2. mon[i].order # y.order
      BY <1>4, <2>1, <3>1, Zenon DEF Alone
    <3> QED BY <2>1, <2>3, <3>2, Zenon
  <2> QED BY <2>2, <2>3, Zenon DEF Entries
<1>5. \A i \in DOMAIN mon' : Alone /\ mon'[i].bid /\ mon'[i].at # "drained" =>
         orders'[mon'[i].order] # 0 /\ \A n \in DOMAIN mon' : mon'[n].order = mon'[i].order => mon'[n].bid
  BY <1>1, <1>4, ZenonT(30)
<1> QED BY <1>2, <1>3, <1>5, Zenon DEF OneAtATime

\* Who may have announced a lease stays so.
LEMMA AnnouncerStays ==
    ASSUME NEW m, NEW y, Moved(m, y), Alone' <=> Alone
    PROVE  /\ \A i \in DOMAIN mon : \A o : Announcer(i, o) => Announcer(i, o)'
           /\ (\E i \in DOMAIN mon : mon[i].bid /\ Over(mon[i].order)) =>
                 \E i \in DOMAIN mon' : mon'[i].bid /\ Over(mon[i].order)'
<1>1. log' = log /\ market' = market /\ crowded' = crowded
  BY Zenon DEF Moved
<1>2. /\ DOMAIN mon' = DOMAIN mon
      /\ \A i \in DOMAIN mon : mon'[i].order = mon[i].order /\ mon'[i].bid = mon[i].bid
      /\ \A i \in DOMAIN mon : mon[i].won => mon'[i].won
  BY MovedGrows, Zenon
<1>3. \A i \in DOMAIN mon : Over(mon[i].order) <=> Over(mon[i].order)'
  BY <1>1, <1>2, LogSame, Zenon
<1>4. ASSUME NEW i \in DOMAIN mon, NEW o, Announcer(i, o) PROVE Announcer(i, o)'
  <2>1. (\A k \in DOMAIN log : ~CreatedAt(k, o)) => \A k \in DOMAIN log' : ~CreatedAt(k, o)'
    BY <1>1, LogSame, Zenon
  <2> QED BY <1>1, <1>2, <1>3, <1>4, <2>1, Zenon DEF Announcer
<1> QED BY <1>2, <1>3, <1>4, Zenon

LEMMA MovedAnnouncements ==
    ASSUME Announcements, NEW m, NEW y, Moved(m, y), Alone' <=> Alone, announced' = announced
    PROVE  Announcements'
<1>1. market' = market /\ crowded' = crowded /\ DOMAIN mon' = DOMAIN mon
  BY Zenon DEF Moved
<1>2. \A i \in DOMAIN mon : \A o : Announcer(i, o) => Announcer(i, o)'
  BY AnnouncerStays, Zenon
<1>3. (\E i \in DOMAIN mon : mon[i].bid /\ Over(mon[i].order)) =>
         \E i \in DOMAIN mon' : mon'[i].bid /\ Over(mon[i].order)'
  BY AnnouncerStays, Zenon
<1> QED BY <1>1, <1>2, <1>3, Zenon DEF Announcements

\* The inductive invariant for leases.
LeaseInv ==
    /\ WorldOK /\ LogOfOrder /\ LogOfGroup /\ LogOfBids /\ Started /\ Recovered /\ OneAtATime
    /\ Announcements /\ \A m \in DOMAIN mon : Equipped(mon[m], crowded)

\* What the two invariants say of the domains.
LEMMA Domains ==
    ASSUME MonInv
    PROVE  /\ DOMAIN log \subseteq Nat /\ Ordered
           /\ \A m \in DOMAIN mon : mon[m] \in Monitors
           /\ \A i \in DOMAIN log : log[i].order \in Orders /\ log[i].type \in Types
<1>1. DOMAIN log \subseteq Nat
  <2>1. ASSUME NEW S, NEW s \in Seq(S) PROVE DOMAIN s \subseteq Nat
    OBVIOUS
  <2> QED BY <2>1, Zenon DEF MonInv
<1>2. \A m \in DOMAIN mon : mon[m] \in Monitors
  BY DEF MonInv
<1>3. Ordered
  BY <1>2, MonitorFields, Zenon DEF Ordered
<1>4. \A i \in DOMAIN log : log[i].order \in Orders /\ log[i].type \in Types
  <2>1. ASSUME NEW S, NEW s \in Seq(S), NEW i \in DOMAIN s PROVE s[i] \in S
    BY <2>1
  <2>2. \A i \in DOMAIN log : log[i] \in [type : Types, order : Orders]
    BY <2>1, Zenon DEF MonInv, Types
  <2> QED BY <2>2, Zenon
<1> QED BY <1>1, <1>2, <1>3, <1>4

\* A monitor changes: the invariant stays, if it does for what is announced.
LEMMA MovedInv ==
    ASSUME LeaseInv, MonInv, NEW m, NEW y, Moved(m, y), Bids(y), Entries(y), Equipped(y, crowded), WorldOK',
           announced' = announced \/ Announcements'
    PROVE  LeaseInv'
<1>1. DOMAIN log \subseteq Nat /\ Ordered
  BY Domains, Zenon
<1>2. /\ LogOfOrder /\ LogOfGroup /\ LogOfBids /\ Started /\ Recovered /\ OneAtATime
      /\ Announcements /\ \A i \in DOMAIN mon : Equipped(mon[i], crowded)
  BY Zenon DEF LeaseInv
<1>3. LogOfOrder' /\ LogOfGroup'
  BY <1>2, LogSame, Zenon DEF Moved
<1>4. LogOfBids' /\ Started' /\ Recovered'
  BY <1>1, <1>2, MovedBids, MovedStarted, MovedRecovered, Zenon
<1>5. OneAtATime' /\ (Alone' <=> Alone)
  BY <1>1, <1>2, MovedOne, Zenon
<1>6. Announcements'
  BY <1>2, <1>5, MovedAnnouncements, Zenon
<1>7. \A i \in DOMAIN mon' : Equipped(mon'[i], crowded')
  BY <1>2, Zenon DEF Moved
<1> QED BY <1>3, <1>4, <1>5, <1>6, <1>7, Zenon DEF LeaseInv

-----------------------------------------------------------------------------
(* Leases: the steps of a monitor *)

\* y is x but for the fields that are given here.
Has(y, x, a, c, g, r) ==
    /\ y.order = x.order /\ y.bid = x.bid /\ y.pos = x.pos /\ y.won = x.won
    /\ y.at = a /\ y.call = c /\ y.group = g /\ y.reservation = r

\* What the changes do to the fields.
LEMMA FieldsChanged ==
    ASSUME NEW x \in Monitors, NEW c
    PROVE  /\ Has(WithCall(x, c), x, x.at, c, x.group, x.reservation)
           /\ Has(WithGroup(x, c), x, x.at, c, TRUE, x.reservation)
           /\ Has(WithReservation(x, c), x, x.at, c, x.group, TRUE)
           /\ Has(WithUnkept(x), x, x.at, x.call, x.group, x.reservation)
           /\ Has(WithFailed(x), x, x.at, x.call, x.group, x.reservation)
           /\ Has(WithAt(x, c), x, c, x.call, x.group, x.reservation)
           /\ Has(WithEnd(x, c), x, "done", NoCall, x.group, x.reservation)
<1>1. Has(WithCall(x, c), x, x.at, c, x.group, x.reservation)
  BY Zenon DEF Monitors, Has, WithCall
<1>2. Has(WithGroup(x, c), x, x.at, c, TRUE, x.reservation)
  BY Zenon DEF Monitors, Has, WithGroup
<1>3. Has(WithReservation(x, c), x, x.at, c, x.group, TRUE)
  BY Zenon DEF Monitors, Has, WithReservation
<1>4. Has(WithUnkept(x), x, x.at, x.call, x.group, x.reservation)
  BY Zenon DEF Monitors, Has, WithUnkept
<1>5. Has(WithFailed(x), x, x.at, x.call, x.group, x.reservation)
  BY Zenon DEF Monitors, Has, WithFailed
<1>6. Has(WithAt(x, c), x, c, x.call, x.group, x.reservation)
  BY Zenon DEF Monitors, Has, WithAt
<1>7. Has(WithEnd(x, c), x, "done", NoCall, x.group, x.reservation)
  BY Zenon DEF Monitors, Has, WithEnd
<1> QED BY <1>1, <1>2, <1>3, <1>4, <1>5, <1>6, <1>7, ZenonT(30)

\* Monitor m becomes y.
LEMMA OneReplaced ==
    ASSUME MonInv, NEW m \in DOMAIN mon, NEW y, mon' = [mon EXCEPT ![m] = y]
    PROVE  /\ DOMAIN mon' = DOMAIN mon /\ mon'[m] = y
           /\ \A i \in DOMAIN mon : i # m => mon'[i] = mon[i]
<1>1. ASSUME NEW S, NEW s \in Seq(S), NEW k \in DOMAIN s, NEW z, NEW t, t = [s EXCEPT ![k] = z]
      PROVE  DOMAIN t = DOMAIN s /\ t[k] = z /\ \A i \in DOMAIN s : i # k => t[i] = s[i]
  BY <1>1
<1> QED BY <1>1, Zenon DEF MonInv

\* The log is as long as it is, and it is not read further.
LEMMA WorldMoved ==
    ASSUME LeaseInv, MonInv, NEW m \in DOMAIN mon, NEW y, mon' = [mon EXCEPT ![m] = y],
           y.pos = 0 \/ y.pos <= Len(log), bids' \subseteq Orders, orders' \in [Orders -> Nat],
           announced' \in [Orders -> Nat], UNCHANGED <<svc, pos, log, market, crowded>>
    PROVE  WorldOK'
<1>1. 0 <= Len(log)
  <2>1. ASSUME NEW S, NEW s \in Seq(S) PROVE 0 <= Len(s)
    OBVIOUS
  <2> QED BY <2>1, Zenon DEF MonInv
<1>2. \A i \in DOMAIN mon' : mon'[i].pos <= Len(log)
  BY <1>1, OneReplaced, Zenon DEF LeaseInv, WorldOK
<1> QED BY <1>2, Zenon DEF LeaseInv, WorldOK

\* Monitor m becomes y, which has read no more.
LEMMA QuietStep ==
    ASSUME LeaseInv, MonInv, NEW m \in DOMAIN mon, NEW y, mon' = [mon EXCEPT ![m] = y],
           Grows(y, mon[m]), Equipped(y, crowded), y.pos = mon[m].pos \/ (y.at # "loop" /\ y.pos = 0),
           y.at = "loop" => mon[m].at = "loop", y.at # "drained" => mon[m].at # "drained",
           Bids(y), Entries(y), bids' \subseteq Orders, orders' \in [Orders -> Nat],
           UNCHANGED <<svc, pos, log, market, crowded, announced>>
    PROVE  LeaseInv'
<1>1. Advances(m, y)
  BY Zenon DEF Advances
<1>2. Moved(m, y)
  BY <1>1, OneReplaced, Zenon DEF Moved
<1>3. y.pos = 0 \/ y.pos <= Len(log)
  BY Zenon DEF LeaseInv, WorldOK
<1>4. announced' \in [Orders -> Nat]
  BY Zenon DEF LeaseInv, WorldOK
<1>5. WorldOK'
  BY <1>3, <1>4, WorldMoved, Zenon
<1> QED BY <1>2, <1>5, MovedInv, Zenon

\* A monitor in its loop goes on as x, or leaves as x.
LEMMA LoopStep ==
    ASSUME LeaseInv, MonInv, NEW m \in DOMAIN mon, mon[m].at = "loop", NEW x \in Monitors,
           Grows(x, mon[m]), Equipped(x, crowded), x.at = "loop", x.pos = mon[m].pos,
           Stays(m, x) \/ Leaves(m, x), UNCHANGED <<service, log, market, crowded, bids, announced>>
    PROVE  LeaseInv'
<1>1. /\ UNCHANGED <<svc, pos, log, market, crowded, announced>> /\ bids' = bids /\ orders' = orders
      /\ bids' \subseteq Orders /\ orders' \in [Orders -> Nat]
  BY Zenon DEF service, LeaseInv, WorldOK
<1>2. \A z : Bids(z) /\ Entries(z)
  BY <1>1, Zenon DEF Bids, Entries
<1>3. CASE Stays(m, x)
  BY <1>1, <1>2, <1>3, QuietStep, Zenon DEF Stays
<1>4. CASE Leaves(m, x)
  <2>1. PICK y : y = [x EXCEPT !.at = "waiting", !.pos = 0]
    BY Zenon
  <2>2. mon' = [mon EXCEPT ![m] = y]
    BY <1>4, <2>1, Zenon DEF Leaves
  <2>3. /\ y.order = x.order /\ y.bid = x.bid /\ y.group = x.group /\ y.reservation = x.reservation
        /\ y.won = x.won /\ y.call = x.call /\ y.at = "waiting" /\ y.pos = 0
    BY <2>1, Zenon DEF Monitors
  <2>4. Grows(y, mon[m])
    BY <2>3, Zenon DEF Grows
  <2>5. Equipped(y, crowded)
    BY <2>3, Zenon DEF Equipped
  <2> QED BY <1>1, <1>2, <2>2, <2>3, <2>4, <2>5, QuietStep, Zenon
<1> QED BY <1>3, <1>4

\* The monitor takes the result of a call, or sees the service stop.
LEMMA ResultLease ==
    ASSUME LeaseInv, MonInv, NEW m \in DOMAIN mon,
           (\E r \in {"ok", "mismatch", "error"} : GroupFetched(m, r)) \/ Reserved(m) \/ BidPlaced(m)
             \/ MonitorShutdown(m)
    PROVE  LeaseInv'
<1>1. mon[m] \in Monitors /\ mon[m].call \in Calls /\ Tidy(mon[m]) /\ Equipped(mon[m], crowded)
  <2>1. mon[m] \in Monitors /\ Tidy(mon[m]) /\ Equipped(mon[m], crowded)
    BY Domains, Zenon DEF MonInv, LeaseInv
  <2> QED BY <2>1, MonitorFields, Zenon
<1>2. mon[m].at = "loop" /\ UNCHANGED <<service, log, market, crowded, bids, announced>>
  BY Zenon DEF GroupFetched, Reserved, BidPlaced, MonitorShutdown
<1>3. PICK y : y = WithCall(mon[m], NoCall)
  BY Zenon
<1>4. y \in Monitors /\ Has(y, mon[m], mon[m].at, NoCall, mon[m].group, mon[m].reservation)
  BY <1>1, <1>3, NewCalls, CallChanged, FieldsChanged, Zenon DEF Like
<1>5. Grows(y, mon[m]) /\ Equipped(y, crowded) /\ y.at = "loop" /\ y.pos = mon[m].pos
  <2>1. Grows(y, mon[m]) /\ y.at = "loop" /\ y.pos = mon[m].pos
    BY <1>2, <1>4, Zenon DEF Has, Grows
  <2>2. NoCall.op # "bid" /\ NoCall.op # "reserve"
    BY NewCalls
  <2> QED BY <1>1, <1>4, <2>1, <2>2, Zenon DEF Has, Equipped
<1>6. ASSUME NEW r \in {"ok", "mismatch", "error"}, GroupFetched(m, r) PROVE LeaseInv'
  <2>1. CASE Leaves(m, y)
    BY <1>2, <1>4, <1>5, <2>1, LoopStep, Zenon
  <2>2. ASSUME NEW c \in {NoCall, Call("reserve")}, Stays(m, [mon[m] EXCEPT !.group = TRUE, !.call = c])
        PROVE  LeaseInv'
    <3>1. PICK x : x = WithGroup(mon[m], c)
      BY Zenon
    <3>2. c \in Calls /\ c.op # "bid"
      BY NewCalls
    <3>3. x \in Monitors /\ Has(x, mon[m], mon[m].at, c, TRUE, mon[m].reservation)
      BY <1>1, <3>1, <3>2, GroupChanged, FieldsChanged, Zenon DEF Like
    <3>4. Grows(x, mon[m]) /\ x.at = "loop" /\ x.pos = mon[m].pos
      BY <1>2, <3>3, Zenon DEF Has, Grows
    <3>5. Equipped(x, crowded)
      BY <1>1, <3>2, <3>3, Zenon DEF Has, Equipped
    <3>6. Stays(m, x)
      BY <2>2, <3>1, Zenon DEF WithGroup
    <3> QED BY <1>2, <3>3, <3>4, <3>5, <3>6, LoopStep, Zenon
  <2>3. Leaves(m, y) \/ \E c \in {NoCall, Call("reserve")} : Stays(m, [mon[m] EXCEPT !.group = TRUE, !.call = c])
    BY <1>3, <1>6, Zenon DEF GroupFetched, WithCall
  <2> QED BY <2>1, <2>2, <2>3, Zenon
<1>7. CASE Reserved(m)
  <2>1. PICK u, k : u = WithUnkept(y) /\ k = WithReservation(y, Call("bid"))
    BY Zenon
  <2>2. Leaves(m, y) \/ Stays(m, u) \/ (Stays(m, k) /\ ~mon[m].bid)
    BY <1>3, <1>7, <2>1, Zenon DEF Reserved, WithCall, WithReservation, WithUnkept
  <2>3. CASE Leaves(m, y)
    BY <1>2, <1>4, <1>5, <2>3, LoopStep, Zenon
  <2>4. CASE Stays(m, u)
    <3>1. u \in Monitors /\ Has(u, y, y.at, y.call, y.group, y.reservation)
      BY <1>4, <2>1, ReservationUnkept, FieldsChanged, Zenon
    <3>2. Grows(u, mon[m]) /\ Equipped(u, crowded) /\ u.at = "loop" /\ u.pos = mon[m].pos
      BY <1>5, <3>1, Zenon DEF Has, Grows, Equipped
    <3> QED BY <1>2, <2>4, <3>1, <3>2, LoopStep, Zenon
  <2>5. CASE Stays(m, k) /\ ~mon[m].bid
    <3>1. k \in Monitors /\ Has(k, y, y.at, Call("bid"), y.group, TRUE)
      BY <1>4, <2>1, NewCalls, ReservationKept, FieldsChanged, Zenon
    <3>2. Grows(k, mon[m]) /\ k.at = "loop" /\ k.pos = mon[m].pos
      BY <1>5, <3>1, Zenon DEF Has, Grows
    <3>3. mon[m].group
      BY <1>1, <1>7, Zenon DEF Reserved, Equipped
    <3>4. Equipped(k, crowded)
      BY <1>4, <1>5, <2>5, <3>1, <3>3, Zenon DEF Has, Equipped
    <3> QED BY <1>2, <2>5, <3>1, <3>2, <3>4, LoopStep, Zenon
  <2> QED BY <2>2, <2>3, <2>4, <2>5
<1>8. CASE BidPlaced(m)
  <2>1. PICK f : f = WithFailed(y)
    BY Zenon
  <2>2. Leaves(m, f) \/ Stays(m, y)
    BY <1>3, <1>8, <2>1, Zenon DEF BidPlaced, WithCall, WithFailed
  <2>3. f \in Monitors /\ Has(f, y, y.at, y.call, y.group, y.reservation)
    BY <1>4, <2>1, FailedChanged, FieldsChanged, Zenon DEF Like
  <2>4. Grows(f, mon[m]) /\ Equipped(f, crowded) /\ f.at = "loop" /\ f.pos = mon[m].pos
    BY <1>5, <2>3, Zenon DEF Has, Grows, Equipped
  <2> QED BY <1>2, <1>4, <1>5, <2>2, <2>3, <2>4, LoopStep, Zenon
<1>9. CASE MonitorShutdown(m)
  <2>1. Leaves(m, mon[m]) /\ Grows(mon[m], mon[m])
    BY <1>9, Zenon DEF MonitorShutdown, Grows
  <2> QED BY <1>1, <1>2, <2>1, LoopStep, Zenon
<1> QED BY <1>6, <1>7, <1>8, <1>9, Zenon

\* Reserve and Broadcast return.
LEMMA ReturnLease ==
    ASSUME LeaseInv, MonInv, NEW m \in DOMAIN mon, NEW r \in {"ok", "error"}, NEW accepted \in BOOLEAN,
           ReserveReturns(m, r) \/ BroadcastReturns(m, r, accepted)
    PROVE  LeaseInv'
<1>1. mon[m] \in Monitors /\ mon[m].call \in Calls /\ Equipped(mon[m], crowded) /\ mon[m].order \in Orders
  <2>1. mon[m] \in Monitors /\ Equipped(mon[m], crowded)
    BY Domains, Zenon DEF LeaseInv
  <2> QED BY <2>1, MonitorFields, Zenon
<1>2. PICK c \in Calls : c = [mon[m].call EXCEPT !.result = r] /\ c.op = mon[m].call.op
  <2>1. ASSUME NEW d \in Calls PROVE \E c \in Calls : c = [d EXCEPT !.result = r] /\ c.op = d.op
    BY ResultSet, ZenonT(30)
  <2> QED BY <1>1, <2>1, Zenon
<1>3. PICK x : x = WithCall(mon[m], c)
  BY Zenon
<1>4. /\ UNCHANGED <<svc, pos, log, market, crowded, announced>> /\ orders' = orders
      /\ mon' = [mon EXCEPT ![m] = x]
  BY <1>2, <1>3, Zenon DEF ReserveReturns, BroadcastReturns, service, WithCall
<1>5. Has(x, mon[m], mon[m].at, c, mon[m].group, mon[m].reservation)
  BY <1>1, <1>3, FieldsChanged, Zenon
<1>6. Grows(x, mon[m]) /\ x.at = mon[m].at /\ x.pos = mon[m].pos /\ x.order = mon[m].order
  BY <1>5, Zenon DEF Has, Grows
<1>7. Equipped(x, crowded)
  BY <1>1, <1>2, <1>5, Zenon DEF Has, Equipped
<1>8. Bids(x) /\ bids' \subseteq Orders
  <2>1. bids \subseteq Orders
    BY Zenon DEF LeaseInv, WorldOK
  <2>2. CASE bids' = bids
    BY <2>1, <2>2, Zenon DEF Bids
  <2>3. CASE BroadcastReturns(m, r, accepted) /\ bids' # bids
    <3>1. mon[m].call.op = "bid"
      BY <1>1, <2>3, CallFacts, Zenon DEF BroadcastReturns
    <3>2. ~x.bid /\ x.reservation /\ x.group
      BY <1>1, <1>5, <3>1, Zenon DEF Has, Equipped
    <3>3. bids' = bids \cup {x.order} /\ market[x.order] = "open"
      BY <1>6, <2>3, Zenon DEF BroadcastReturns
    <3> QED BY <1>1, <1>6, <2>1, <3>2, <3>3, Zenon DEF Bids
  <2> QED BY <2>2, <2>3, Zenon DEF ReserveReturns
<1>9. Entries(x) /\ orders' \in [Orders -> Nat]
  BY <1>4, Zenon DEF Entries, LeaseInv, WorldOK
<1> QED BY <1>4, <1>6, <1>7, <1>8, <1>9, QuietStep, ZenonT(30)

\* The monitor is done, and the service receives it.
LEMMA DoneLease ==
    ASSUME LeaseInv, MonInv, NEW m \in DOMAIN mon, MonitorDone(m) \/ Drain(m)
    PROVE  LeaseInv'
<1>1. mon[m] \in Monitors /\ Equipped(mon[m], crowded) /\ mon[m].order \in Orders
  <2>1. mon[m] \in Monitors /\ Equipped(mon[m], crowded)
    BY Domains, Zenon DEF LeaseInv
  <2> QED BY <2>1, MonitorFields, Zenon
<1> DEFINE Ends(a, c, x) ==
             /\ a \in {"done", "drained"}
             /\ mon' = [mon EXCEPT ![m] = x] /\ mon[m].at \in {"waiting", "done"}
             /\ orders' = orders \/ (a = "drained" /\ orders' = [orders EXCEPT ![mon[m].order] = 0])
             /\ Has(x, mon[m], a, c, mon[m].group, mon[m].reservation)
             /\ c = mon[m].call \/ c = NoCall
<1>2. PICK a, c, x : Ends(a, c, x)
  <2>1. CASE MonitorDone(m)
    <3>0. PICK u : u = (mon[m].unkept \/ mon[m].call = [op |-> "reserve", result |-> "ok"])
      BY Zenon
    <3>1. mon' = [mon EXCEPT ![m] = WithEnd(mon[m], u)]
      BY <2>1, <3>0, Zenon DEF MonitorDone, WithEnd
    <3>2. mon[m].at = "waiting" /\ orders' = orders
      BY <2>1, Zenon DEF MonitorDone, service
    <3>3. Has(WithEnd(mon[m], u), mon[m], "done", NoCall, mon[m].group, mon[m].reservation)
      BY <1>1, FieldsChanged, Zenon
    <3>4. "done" \in {"done", "drained"} /\ mon[m].at \in {"waiting", "done"}
      BY <3>2
    <3>5. Ends("done", NoCall, WithEnd(mon[m], u))
      BY <3>1, <3>2, <3>3, <3>4, Zenon
    <3> HIDE DEF Ends
    <3> QED BY <3>5, Zenon
  <2>2. CASE Drain(m)
    <3>1. mon' = [mon EXCEPT ![m] = WithAt(mon[m], "drained")]
      BY <2>2, Zenon DEF Drain, WithAt
    <3>2. mon[m].at = "done" /\ orders' = [orders EXCEPT ![mon[m].order] = 0]
      BY <2>2, Zenon DEF Drain
    <3>3. Has(WithAt(mon[m], "drained"), mon[m], "drained", mon[m].call, mon[m].group,
              mon[m].reservation)
      BY <1>1, FieldsChanged, Zenon
    <3>4. "drained" \in {"done", "drained"} /\ mon[m].at \in {"waiting", "done"}
      BY <3>2
    <3>5. Ends("drained", mon[m].call, WithAt(mon[m], "drained"))
      BY <3>1, <3>2, <3>3, <3>4, Zenon
    <3> HIDE DEF Ends
    <3> QED BY <3>5, Zenon
  <2> QED BY <2>1, <2>2, Zenon
<1>3. UNCHANGED <<svc, pos, log, market, crowded, announced, bids>>
  BY Zenon DEF MonitorDone, Drain, service, world
<1>6. Grows(x, mon[m]) /\ x.at = a /\ x.pos = mon[m].pos /\ x.order = mon[m].order
  BY <1>2, Zenon DEF Has, Grows
<1>7. x.at # "loop" /\ mon[m].at # "drained"
  BY <1>2, <1>6
<1>8. Equipped(x, crowded)
  <2>1. NoCall.op # "bid" /\ NoCall.op # "reserve"
    BY NewCalls
  <2> QED BY <1>1, <1>2, <1>7, <2>1, Zenon DEF Has, Equipped
<1>9. Bids(x) /\ bids' \subseteq Orders
  BY <1>3, Zenon DEF Bids, LeaseInv, WorldOK
<1>10. Entries(x) /\ orders' \in [Orders -> Nat]
  <2>1. orders \in [Orders -> Nat]
    BY Zenon DEF LeaseInv, WorldOK
  <2>2. ASSUME NEW f \in [Orders -> Nat], NEW q \in Orders, NEW g, g = [f EXCEPT ![q] = 0]
        PROVE  g \in [Orders -> Nat] /\ \A o \in Orders : o # q => g[o] = f[o]
    BY <2>2
  <2>3. CASE orders' = orders
    BY <2>1, <2>3, Zenon DEF Entries
  <2>4. CASE a = "drained" /\ orders' = [orders EXCEPT ![mon[m].order] = 0]
    BY <1>1, <1>6, <2>1, <2>2, <2>4, Zenon DEF Entries
  <2> QED BY <1>2, <2>3, <2>4
<1> QED BY <1>2, <1>3, <1>6, <1>7, <1>8, <1>9, <1>10, QuietStep, Zenon

\* A lease that a monitor started by an event reads in its loop is that of its own order, for
\* which it has resources, unless its group is crowded.
LEMMA OwnLease ==
    ASSUME LeaseInv, MonInv, NEW m \in DOMAIN mon, mon[m].at = "loop", ~mon[m].bid,
           NEW j \in DOMAIN log, j = mon[m].pos + 1, log[j].type = "won",
           GroupOf[log[j].order] = GroupOf[mon[m].order], GroupOf[mon[m].order] \notin crowded
    PROVE  log[j].order = mon[m].order /\ mon[m].reservation /\ mon[m].group
<1>1. /\ LogOfOrder /\ LogOfGroup /\ LogOfBids /\ Started /\ DOMAIN log \subseteq Nat
      /\ mon[m].pos \in Nat
  <2>1. mon[m] \in Monitors
    BY Domains, Zenon
  <2> QED BY <2>1, Domains, MonitorFields, Zenon DEF LeaseInv
<1>2. PICK c \in DOMAIN log : CreatedAt(c, mon[m].order)
  BY <1>1, Zenon DEF Started
<1>3. /\ c <= mon[m].pos
      /\ \A k \in DOMAIN log : c < k /\ k <= mon[m].pos => log[k].order # mon[m].order
  BY <1>1, <1>2, Zenon DEF Started
<1>4. log[c].type = "created" /\ log[c].order = mon[m].order
  BY <1>2, Zenon DEF CreatedAt
<1>5. log[j].order = mon[m].order
  <2>1. SUFFICES ASSUME log[j].order # mon[m].order PROVE FALSE
    OBVIOUS
  <2>2. SameGroup(log[c].order, log[j].order, crowded)
    BY <1>4, <2>1, Zenon DEF SameGroup
  <2>3. c < j
    BY <1>1, <1>3
  <2>4. PICK k \in DOMAIN log : c < k /\ k < j /\ log[k].order = log[c].order
    BY <1>1, <1>4, <2>2, <2>3, Zenon DEF LogOfGroup
  <2>5. k <= mon[m].pos
    BY <1>1, <2>4
  <2> QED BY <1>3, <1>4, <2>4, <2>5, Zenon
<1>6. log[c].order \in bids
  BY <1>1, <1>4, <1>5, Zenon DEF LogOfBids
<1>7. PICK n \in DOMAIN mon : /\ mon[n].order = log[c].order /\ ~mon[n].bid
                              /\ mon[n].reservation /\ mon[n].group
  BY <1>1, <1>4, <1>6, Zenon DEF LogOfBids
<1>8. n = m
  BY <1>1, <1>4, <1>7, Zenon DEF Started
<1> QED BY <1>5, <1>7, <1>8, Zenon

\* A lease that the one recovered monitor reads in its loop is on an order from before, unless
\* the order of the monitor was over or the group is crowded.
LEMMA OthersLease ==
    ASSUME LeaseInv, MonInv, Alone, NEW m \in DOMAIN mon, mon[m].at = "loop", mon[m].bid,
           NEW j \in DOMAIN log, j = mon[m].pos + 1, log[j].type = "won",
           GroupOf[log[j].order] = GroupOf[mon[m].order], GroupOf[mon[m].order] \notin crowded,
           NEW c \in DOMAIN log, CreatedAt(c, log[j].order)
    PROVE  Over(mon[m].order)
<1>1. /\ LogOfOrder /\ LogOfBids /\ Recovered /\ OneAtATime /\ DOMAIN log \subseteq Nat
      /\ mon[m].pos \in Nat
  <2>1. mon[m] \in Monitors
    BY Domains, Zenon
  <2> QED BY <2>1, Domains, MonitorFields, Zenon DEF LeaseInv
<1>2. log[c].type = "created" /\ log[c].order = log[j].order /\ log[c].order \in bids
  BY <1>1, Zenon DEF CreatedAt, LogOfBids
<1>3. PICK n \in DOMAIN mon : mon[n].order = log[c].order /\ ~mon[n].bid
  BY <1>1, <1>2, Zenon DEF LogOfBids
<1>4. log[c].order # mon[m].order
  <2>1. mon[m].at # "drained"
    OBVIOUS
  <2> QED BY <1>1, <1>3, <2>1, Zenon DEF OneAtATime
<1>5. SameGroup(log[c].order, mon[m].order, crowded)
  BY <1>2, <1>4, Zenon DEF SameGroup
<1>6. ~EndedBefore(mon[m].order, c)
  <2>1. c <= j
    BY <1>1, <1>2, Zenon DEF LogOfOrder
  <2>2. \A k \in DOMAIN log : k < c => k <= mon[m].pos
    BY <1>1, <2>1
  <2> QED BY <1>1, <2>2, Zenon DEF EndedBefore, Recovered
<1> QED BY <1>1, <1>2, <1>5, <1>6, Zenon DEF Recovered

\* A lease is announced for the first time, or the exceptions hold.
LEMMA NewAnnouncement ==
    ASSUME LeaseInv, MonInv, NEW m \in DOMAIN mon, mon[m].at = "loop", NEW y, Moved(m, y), y.won,
           NEW j \in DOMAIN log, j = mon[m].pos + 1, log[j].type = "won",
           GroupOf[log[j].order] = GroupOf[mon[m].order], Alone' <=> Alone,
           NEW o \in Orders, o = log[j].order, announced' = [announced EXCEPT ![o] = @ + 1]
    PROVE  Announcements'
<1>1. /\ LogOfOrder /\ Started /\ Announcements /\ Equipped(mon[m], crowded)
      /\ announced \in [Orders -> Nat] /\ mon[m].bid \in BOOLEAN
  <2>1. mon[m] \in Monitors
    BY Domains, Zenon
  <2> QED BY <2>1, MonitorFields, Zenon DEF LeaseInv, WorldOK
<1>2. ~mon[m].won /\ market[o] # "none"
  BY <1>1, Zenon DEF Equipped, LogOfOrder
<1>3. /\ announced'[o] = announced[o] + 1 /\ announced[o] \in Nat
      /\ \A p \in Orders : p # o => announced'[p] = announced[p]
  BY <1>1
<1>4. ~mon[m].bid /\ GroupOf[o] \notin crowded => mon[m].order = o
  BY OwnLease, Zenon
<1>5. mon[m].bid /\ GroupOf[o] \notin crowded =>
         ~Alone \/ Over(mon[m].order) \/ \A i \in DOMAIN log : ~CreatedAt(i, o)
  BY OthersLease, Zenon
<1>6. log' = log /\ market' = market /\ crowded' = crowded /\ DOMAIN mon' = DOMAIN mon /\ mon'[m] = y
  BY Zenon DEF Moved
<1>7. mon'[m].order = mon[m].order /\ mon'[m].bid = mon[m].bid
  BY MovedGrows, Zenon
<1>8. Over(mon[m].order) <=> Over(mon[m].order)'
  BY <1>6, <1>7, LogSame, Zenon
<1>9. Announcer(m, o)'
  <2>1. (\A k \in DOMAIN log : ~CreatedAt(k, o)) => \A k \in DOMAIN log' : ~CreatedAt(k, o)'
    BY <1>6, LogSame, Zenon
  <2> QED BY <1>4, <1>5, <1>6, <1>7, <1>8, <2>1, Zenon DEF Announcer
<1>10. ASSUME announced[o] > 0, Alone, GroupOf[o] \notin crowded
       PROVE  \E i \in DOMAIN mon : mon[i].bid /\ Over(mon[i].order)
  <2>1. PICK i \in DOMAIN mon : Announcer(i, o)
    BY <1>1, <1>10, Zenon DEF Announcements
  <2>2. i # m
    BY <1>2, <2>1, Zenon DEF Announcer
  <2>3. CASE ~mon[m].bid
    <3>1. \E c \in DOMAIN log : CreatedAt(c, o)
      BY <1>1, <1>4, <1>10, <2>3, Zenon DEF Started
    <3>2. mon[i].bid
      BY <1>1, <1>4, <1>10, <2>1, <2>2, <2>3, Zenon DEF Started, Announcer
    <3> QED BY <1>10, <2>1, <3>1, <3>2, Zenon DEF Announcer
  <2>4. CASE mon[m].bid
    <3>1. ~mon[i].bid /\ mon[i].order = o
      BY <1>10, <2>1, <2>2, <2>4, Zenon DEF Alone, Announcer
    <3>2. \E c \in DOMAIN log : CreatedAt(c, o)
      BY <1>1, <3>1, Zenon DEF Started
    <3> QED BY <1>5, <1>10, <2>4, <3>2, Zenon
  <2> QED BY <1>1, <2>3, <2>4, Zenon
<1>11. /\ \A i \in DOMAIN mon : \A p : Announcer(i, p) => Announcer(i, p)'
       /\ (\E i \in DOMAIN mon : mon[i].bid /\ Over(mon[i].order)) =>
             \E i \in DOMAIN mon' : mon'[i].bid /\ Over(mon[i].order)'
  BY AnnouncerStays, Zenon
<1>12. ASSUME NEW p \in Orders, announced'[p] > 0
       PROVE  market'[p] # "none" /\ \E i \in DOMAIN mon' : Announcer(i, p)'
  <2>1. CASE p = o
    BY <1>2, <1>6, <1>9, <2>1, Zenon
  <2>2. CASE p # o
    BY <1>1, <1>3, <1>6, <1>11, <1>12, <2>2, Zenon DEF Announcements
  <2> QED BY <2>1, <2>2
<1>13. ASSUME NEW p \in Orders, announced'[p] > 1
       PROVE  \/ ~Alone \/ GroupOf[p] \in crowded'
              \/ \E i \in DOMAIN mon' : mon'[i].bid /\ Over(mon[i].order)'
  <2>1. CASE p = o
    <3>1. announced[o] > 0
      BY <1>3, <1>13, <2>1
    <3> QED BY <1>6, <1>10, <1>11, <2>1, <3>1, Zenon
  <2>2. CASE p # o
    BY <1>1, <1>3, <1>6, <1>11, <1>13, <2>2, Zenon DEF Announcements
  <2> QED BY <2>1, <2>2
<1> QED BY <1>6, <1>12, <1>13, Zenon DEF Announcements

\* y is x but for its place, and for whether it has won.
Read(y, x, p, a, w) ==
    /\ y.order = x.order /\ y.bid = x.bid /\ y.pos = p /\ y.at = a
    /\ y.call = x.call /\ y.group = x.group /\ y.reservation = x.reservation /\ y.won = w

\* What reading an event does to the fields.
LEMMA EventFields ==
    ASSUME NEW x \in Monitors, NEW w
    PROVE  /\ Read(WithEvent(x, w), x, x.pos + 1, x.at, w)
           /\ Read([WithEvent(x, w) EXCEPT !.at = "waiting", !.pos = 0], x, 0, "waiting", w)
BY Zenon DEF Monitors, WithEvent, Read

\* The monitor reads an event.
LEMMA EventLease ==
    ASSUME LeaseInv, MonInv, NEW m \in DOMAIN mon, MonitorEvent(m)
    PROVE  LeaseInv'
<1>1. mon[m] \in Monitors /\ Equipped(mon[m], crowded) /\ mon[m].order \in Orders /\ mon[m].pos \in Nat
  <2>1. mon[m] \in Monitors /\ Equipped(mon[m], crowded)
    BY Domains, Zenon DEF LeaseInv
  <2> QED BY <2>1, MonitorFields, Zenon
<1>2. PICK j, w : /\ j = mon[m].pos + 1
                  /\ w = (Concerns(mon[m], log[j]) /\ log[j].type = "won")
  BY Zenon
<1>3. /\ mon[m].at = "loop" /\ mon[m].pos < Len(log)
      /\ IF Concerns(mon[m], log[j]) THEN Leaves(m, WithEvent(mon[m], w))
                                     ELSE Stays(m, WithEvent(mon[m], w))
      /\ announced' = IF w THEN [announced EXCEPT ![log[j].order] = @ + 1] ELSE announced
      /\ UNCHANGED <<service, log, market, crowded, bids>>
  BY <1>2, Zenon DEF MonitorEvent, WithEvent
<1>4. j \in DOMAIN log /\ log[j].order \in Orders /\ log[j].type \in Types
  <2>1. ASSUME NEW S, NEW s \in Seq(S), NEW k \in Nat, k < Len(s) PROVE k + 1 \in DOMAIN s
    BY <2>1
  <2>2. j \in DOMAIN log
    BY <1>1, <1>2, <1>3, <2>1, Zenon DEF MonInv
  <2> QED BY <2>2, Domains, Zenon
<1>5. /\ UNCHANGED <<svc, pos, log, market, crowded>> /\ bids' = bids /\ orders' = orders /\ bids' \subseteq Orders
      /\ orders' \in [Orders -> Nat] /\ announced \in [Orders -> Nat] /\ ~mon[m].won
  BY <1>1, <1>3, Zenon DEF service, LeaseInv, WorldOK, Equipped
<1>6. \A z : Bids(z) /\ Entries(z)
  BY <1>5, Zenon DEF Bids, Entries
<1>7. CASE ~Concerns(mon[m], log[j])
  <2>1. PICK x : x = WithEvent(mon[m], w)
    BY Zenon
  <2>2. /\ x.order = mon[m].order /\ x.bid = mon[m].bid /\ x.pos = mon[m].pos + 1 /\ x.at = mon[m].at
        /\ x.call = mon[m].call /\ x.group = mon[m].group /\ x.reservation = mon[m].reservation
        /\ ~x.won
    <3>1. Read(x, mon[m], mon[m].pos + 1, mon[m].at, w)
      BY <1>1, <2>1, EventFields, Zenon
    <3>2. ~w
      BY <1>2, <1>7, Zenon
    <3> QED BY <3>1, <3>2, Zenon DEF Read
  <2>3. mon' = [mon EXCEPT ![m] = x] /\ announced' = announced
    BY <1>2, <1>3, <1>7, <2>1, Zenon DEF Stays
  <2>4. Grows(x, mon[m]) /\ Equipped(x, crowded)
    BY <1>1, <1>5, <2>2, Zenon DEF Grows, Equipped
  <2>5. Advances(m, x)
    <3>1. log[j].order = mon[m].order => log[j].type = "created"
      BY <1>4, <1>7 DEF Concerns, Types
    <3>2. \A k \in DOMAIN log : /\ k <= mon[m].pos => k <= x.pos
                                /\ k <= x.pos => k <= mon[m].pos \/ k = j
      <4>1. DOMAIN log \subseteq Nat
        BY Domains, Zenon
      <4> QED BY <1>1, <1>2, <2>2, <4>1
    <3> QED BY <2>2, <3>1, <3>2, Zenon DEF Advances
  <2>6. Moved(m, x)
    BY <1>3, <1>5, <2>2, <2>3, <2>4, <2>5, OneReplaced, Zenon DEF Moved
  <2>7. x.pos <= Len(log)
    <3>1. ASSUME NEW S, NEW s \in Seq(S), NEW k \in Nat, k < Len(s) PROVE k + 1 <= Len(s)
      BY <3>1
    <3> QED BY <1>1, <1>3, <2>2, <3>1, Zenon DEF MonInv
  <2>8. WorldOK'
    BY <1>5, <2>3, <2>7, WorldMoved, Zenon
  <2> QED BY <1>6, <2>3, <2>4, <2>6, <2>8, MovedInv, Zenon
<1>8. CASE Concerns(mon[m], log[j])
  <2>1. PICK y : y = [WithEvent(mon[m], w) EXCEPT !.at = "waiting", !.pos = 0]
    BY Zenon
  <2>2. /\ y.order = mon[m].order /\ y.bid = mon[m].bid /\ y.pos = 0 /\ y.at = "waiting"
        /\ y.call = mon[m].call /\ y.group = mon[m].group /\ y.reservation = mon[m].reservation
        /\ y.won = w
    <3>1. Read(y, mon[m], 0, "waiting", w)
      BY <1>1, <2>1, EventFields, Zenon
    <3> QED BY <3>1, Zenon DEF Read
  <2>3. mon' = [mon EXCEPT ![m] = y]
    BY <1>3, <1>8, <2>1, Zenon DEF Leaves
  <2>4. w => log[j].type = "won" /\ GroupOf[log[j].order] = GroupOf[mon[m].order]
    BY <1>2, Zenon DEF Concerns
  <2>5. Grows(y, mon[m]) /\ Advances(m, y)
    BY <1>5, <2>2, Zenon DEF Grows, Advances
  <2>6. Equipped(y, crowded)
    <3>1. w /\ ~mon[m].bid => mon[m].reservation \/ GroupOf[mon[m].order] \in crowded
      BY <1>2, <1>3, <1>4, <2>4, OwnLease, Zenon
    <3> QED BY <1>1, <2>2, <3>1, Zenon DEF Equipped
  <2>7. Moved(m, y)
    BY <1>3, <1>5, <2>2, <2>3, <2>5, OneReplaced, Zenon DEF Moved
  <2>8. announced' \in [Orders -> Nat]
    BY <1>3, <1>4, <1>5
  <2>9. WorldOK'
    BY <1>5, <2>2, <2>3, <2>8, WorldMoved, Zenon
  <2>10. announced' = announced \/ Announcements'
    <3>1. CASE w
      <4>1. Alone' <=> Alone
        BY <1>6, <2>7, Domains, MovedOne, Zenon DEF LeaseInv
      <4>2. announced' = [announced EXCEPT ![log[j].order] = @ + 1] /\ y.won
        BY <1>3, <2>2, <3>1, Zenon
      <4> QED BY <1>2, <1>3, <1>4, <2>4, <2>7, <3>1, <4>1, <4>2, NewAnnouncement, ZenonT(30)
    <3>2. CASE ~w
      BY <1>3, <3>2, Zenon
    <3> QED BY <3>1, <3>2
  <2> QED BY <1>6, <2>6, <2>7, <2>9, <2>10, MovedInv, Zenon
<1> QED BY <1>7, <1>8

-----------------------------------------------------------------------------
(* Leases: the steps of the market and of the service *)

\* v is u and, at place k, the event d.
Longer(u, v, k, d) ==
    /\ k \in Nat /\ k \notin DOMAIN u /\ DOMAIN v = DOMAIN u \cup {k} /\ v[k] = d
    /\ \A i \in DOMAIN u : v[i] = u[i] /\ i < k /\ i <= k /\ ~(k < i) /\ ~(k <= i)
    /\ k <= k /\ ~(k < k)
    /\ \A i \in Nat : i <= Len(u) => ~(k <= i) /\ i <= Len(v)

LEMMA OneMore ==
    ASSUME NEW S, NEW u \in Seq(S), NEW d, NEW v, v = Append(u, d)
    PROVE  Longer(u, v, Len(u) + 1, d)
BY DEF Longer

\* An event is published.
LEMMA ToldInv ==
    ASSUME LeaseInv, MonInv, NEW t \in Types, NEW o \in Orders, NEW s \in MarketStates,
           market' = [market EXCEPT ![o] = s], log' = Append(log, [type |-> t, order |-> o]),
           UNCHANGED <<svc, pos, orders, mon, bids, announced>>,
           crowded \subseteq crowded', Over(o) => s = "gone",
           \/ /\ t = "created" /\ s = "open" /\ market[o] = "none"
              /\ \A p \in Orders : SameGroup(o, p, crowded') => market[p] # "open"
           \/ /\ t # "created" /\ market[o] # "none" /\ s \notin {"none", "open"}
              /\ t = "won" => market[o] = "open" /\ o \in bids
    PROVE  LeaseInv'
<1>1. PICK n, e : n = Len(log) + 1 /\ e = [type |-> t, order |-> o]
  BY Zenon
<1>2. e.type = t /\ e.order = o
  BY <1>1, Zenon
<1>3. Longer(log, log', n, e)
  BY <1>1, OneMore, Zenon DEF MonInv
<1>4. /\ market \in [Orders -> MarketStates] /\ bids \subseteq Orders
      /\ announced \in [Orders -> Nat] /\ orders \in [Orders -> Nat]
      /\ svc = "starting" => pos = 0
      /\ pos <= Len(log) /\ \A m \in DOMAIN mon : mon[m].pos <= Len(log)
  BY Zenon DEF LeaseInv, WorldOK
<1>5. /\ market' \in [Orders -> MarketStates] /\ market'[o] = s
      /\ \A p \in Orders : p # o => market'[p] = market[p]
  BY <1>4
<1>6. Told(n, t, o, s)
  BY <1>2, <1>3, <1>5, Domains, Zenon DEF Told, Longer
<1>7. pos \in Nat /\ \A m \in DOMAIN mon : mon[m].pos \in Nat
  <2>1. \A m \in DOMAIN mon : mon[m] \in Monitors
    BY Domains, Zenon
  <2> QED BY <2>1, MonitorFields, Zenon DEF MonInv
<1>8. WorldOK'
  BY <1>3, <1>4, <1>5, <1>7, Zenon DEF WorldOK, Longer
<1>9. \A m \in DOMAIN mon : ~(n <= mon[m].pos)
  BY <1>3, <1>4, <1>7, Zenon DEF Longer
<1>10. /\ LogOfOrder /\ LogOfGroup /\ LogOfBids /\ Started /\ Recovered /\ OneAtATime
       /\ Announcements /\ \A m \in DOMAIN mon : Equipped(mon[m], crowded)
  BY Zenon DEF LeaseInv
<1>11. LogOfOrder' /\ LogOfGroup' /\ LogOfBids'
  BY <1>4, <1>6, <1>10, Domains, ToldOrder, ToldGroup, ToldBids, ZenonT(30)
<1>12. Started' /\ Recovered' /\ Announcements'
  BY <1>6, <1>9, <1>10, Domains, ToldStarted, ToldRecovered, ToldAnnouncements, ZenonT(30)
<1>13. OneAtATime'
  BY <1>10, Zenon DEF OneAtATime, Alone
<1>14. \A m \in DOMAIN mon : Equipped(mon[m], crowded')
  BY <1>10, Zenon DEF Equipped
<1> QED BY <1>8, <1>10, <1>11, <1>12, <1>13, <1>14, Zenon DEF LeaseInv

\* The steps of the market.
LEMMA MarketLease ==
    ASSUME LeaseInv, MonInv, NEW o \in Orders,
           OrderCreated(o) \/ OrderClosed(o) \/ \E mine \in BOOLEAN : LeaseCreated(o, mine)
    PROVE  LeaseInv'
<1>0. market \in [Orders -> MarketStates]
  BY Zenon DEF LeaseInv, WorldOK
<1>1. UNCHANGED <<svc, pos, orders, mon, bids, announced>>
  BY Zenon DEF OrderCreated, OrderClosed, LeaseCreated, service
<1>2. CASE OrderCreated(o)
  <2>1. /\ market' = [market EXCEPT ![o] = "open"] /\ market[o] = "none"
        /\ log' = Append(log, [type |-> "created", order |-> o])
        /\ crowded' = crowded \cup Crowded(market')
    BY <1>2, Zenon DEF OrderCreated, Publish
  <2>2. "created" \in Types /\ "open" \in MarketStates /\ ~Over(o)
    BY <2>1 DEF Types, MarketStates, Over
  <2>3. market'[o] = "open" /\ \A p \in Orders : p # o => market'[p] = market[p]
    BY <1>0, <2>1
  <2>4. ASSUME NEW p \in Orders, SameGroup(o, p, crowded'), market[p] = "open" PROVE FALSE
    <3>1. p # o /\ GroupOf[o] = GroupOf[p] /\ GroupOf[o] \notin Crowded(market')
      BY <2>1, <2>4, Zenon DEF SameGroup
    <3>2. market'[p] = "open"
      BY <2>3, <2>4, <3>1, Zenon
    <3> QED BY <2>3, <3>1, <3>2, Zenon DEF Crowded
  <2>5. crowded \subseteq crowded'
    BY <2>1, Zenon
  <2> QED BY <1>1, <2>1, <2>2, <2>4, <2>5, ToldInv, Zenon
<1>3. CASE OrderClosed(o)
  <2>1. PICK s : s = (IF market[o] = "leased" THEN "gone" ELSE "closed")
    BY Zenon
  <2>2. /\ market' = [market EXCEPT ![o] = s] /\ market[o] \in {"open", "mine", "lost", "leased"}
        /\ log' = Append(log, [type |-> "closed", order |-> o]) /\ crowded' = crowded
    BY <1>3, <2>1, Zenon DEF OrderClosed, Publish
  <2>3. /\ "closed" \in Types /\ s \in MarketStates /\ s \notin {"none", "open"}
        /\ "closed" # "created" /\ "closed" # "won" /\ market[o] # "none"
        /\ Over(o) => s = "gone"
    BY <2>1, <2>2 DEF Types, MarketStates, Over
  <2> QED BY <1>1, <2>2, <2>3, ToldInv, Zenon
<1>4. ASSUME NEW mine \in BOOLEAN, LeaseCreated(o, mine) PROVE LeaseInv'
  <2>1. PICK t, s : t = (IF mine THEN "won" ELSE "lost") /\ s = (IF mine THEN "mine" ELSE "lost")
    BY Zenon
  <2>2. /\ market' = [market EXCEPT ![o] = s] /\ market[o] = "open" /\ (mine => o \in bids)
        /\ log' = Append(log, [type |-> t, order |-> o]) /\ crowded' = crowded
    BY <1>4, <2>1, Zenon DEF LeaseCreated, Publish
  <2>3. /\ t \in Types /\ s \in MarketStates /\ s \notin {"none", "open"}
        /\ t # "created" /\ (t = "won" => mine) /\ market[o] # "none" /\ ~Over(o)
    BY <2>1, <2>2 DEF Types, MarketStates, Over
  <2> QED BY <1>1, <2>2, <2>3, ToldInv, Zenon
<1> QED BY <1>2, <1>3, <1>4, Zenon

\* What newOrder gives.
IsNew(x, o, bid, from) ==
    x.order = o /\ x.bid = bid /\ x.pos = from /\ x.at = "loop" /\ \A busy : Equipped(x, busy)

LEMMA NewFields ==
    ASSUME NEW o, NEW bid, NEW from
    PROVE  IsNew(newOrder(o, bid, from), o, bid, from)
<1>1. PICK x : x = newOrder(o, bid, from)
  BY Zenon
<1>2. /\ x.order = o /\ x.bid = bid /\ x.pos = from /\ x.at = "loop" /\ x.call = Call("group")
      /\ x.reservation = FALSE /\ x.won = FALSE
  BY <1>1, Zenon DEF newOrder
<1>3. \A busy : Equipped(x, busy)
  <2>1. Call("group").op # "bid" /\ Call("group").op # "reserve"
    BY NewCalls
  <2> QED BY <1>2, <2>1, Zenon DEF Equipped
<1> QED BY <1>1, <1>2, <1>3, Zenon DEF IsNew

\* The monitors, the orders and the log are as before, and what is said of them.
LEMMA NothingNew ==
    ASSUME UNCHANGED <<orders, mon, log, market, crowded, bids, announced>>
    PROVE  /\ LogOfBids => LogOfBids'
           /\ Recovered => Recovered'
           /\ OneAtATime => OneAtATime'
           /\ Announcements => Announcements'
<1>1. LogOfBids => LogOfBids'
  BY Zenon DEF LogOfBids
<1>2. /\ \A m \in DOMAIN mon : Over(mon[m].order)' <=> Over(mon[m].order)
      /\ \A c : \A m \in DOMAIN mon : EndedBefore(mon[m].order, c)' <=> EndedBefore(mon[m].order, c)
      /\ \A i, o : CreatedAt(i, o)' <=> CreatedAt(i, o)
  BY Zenon DEF Over, EndedBefore, CreatedAt
<1>3. Recovered => Recovered'
  BY <1>2 DEF Recovered
<1>4. Alone' <=> Alone
  BY Zenon DEF Alone
<1>5. OneAtATime => OneAtATime'
  BY <1>4, Zenon DEF OneAtATime
<1>6. \A o : \A m \in DOMAIN mon : Announcer(m, o)' <=> Announcer(m, o)
  BY <1>2, <1>4 DEF Announcer
<1>7. Announcements => Announcements'
  BY <1>2, <1>4, <1>6, Zenon DEF Announcements
<1> QED BY <1>1, <1>3, <1>5, <1>7, Zenon

\* A monitor is added.
Adds(u, v, k, d) ==
    /\ DOMAIN v = DOMAIN u \cup {k} /\ v[k] = d /\ k \notin DOMAIN u
    /\ \A i \in DOMAIN u : v[i] = u[i]

LEMMA OneAdded ==
    ASSUME NEW S, NEW u \in Seq(S), NEW d, NEW v, v = Append(u, d), NEW k, k = Len(u) + 1
    PROVE  Adds(u, v, k, d)
BY DEF Adds

\* The service reads an event, and starts a monitor for a new order.
LEMMA TakeEventLease ==
    ASSUME LeaseInv, MonInv, TakeEvent
    PROVE  LeaseInv'
<1>1. /\ WorldOK /\ LogOfOrder /\ LogOfGroup /\ LogOfBids /\ Started /\ Recovered /\ OneAtATime
      /\ Announcements /\ \A m \in DOMAIN mon : Equipped(mon[m], crowded)
  BY Zenon DEF LeaseInv
<1>2. PICK j : j = pos + 1
  BY Zenon
<1>3. /\ svc = "running" /\ pos < Len(log) /\ pos' = j
      /\ UNCHANGED <<svc, log, market, crowded, bids, announced>>
      /\ \/ UNCHANGED <<mon, orders>>
         \/ /\ log[j].type = "created" /\ orders[log[j].order] = 0
            /\ mon' = Append(mon, newOrder(log[j].order, FALSE, j))
            /\ orders' = [orders EXCEPT ![log[j].order] = Len(mon) + 1]
  BY <1>2, Zenon DEF TakeEvent, world
<1>4. /\ j \in DOMAIN log /\ j <= Len(log) /\ DOMAIN log \subseteq Nat /\ j \in Nat /\ pos \in Nat
      /\ \A c \in DOMAIN log : (c <= pos => c <= j /\ ~(j <= c)) /\ c <= c
  <2>1. ASSUME NEW S, NEW s \in Seq(S), NEW k \in Nat, k < Len(s)
        PROVE  k + 1 \in DOMAIN s /\ k + 1 <= Len(s) /\ DOMAIN s \subseteq Nat /\ k + 1 \in Nat
    BY <2>1
  <2>2. pos \in Nat /\ \E S : log \in Seq(S)
    BY Zenon DEF MonInv
  <2>3. j \in DOMAIN log /\ j <= Len(log) /\ DOMAIN log \subseteq Nat /\ j \in Nat
    BY <1>2, <1>3, <2>1, <2>2, Zenon
  <2>4. \A c \in DOMAIN log : (c <= pos => c <= j /\ ~(j <= c)) /\ c <= c
    BY <1>2, <2>2, <2>3
  <2> QED BY <2>2, <2>3, <2>4, Zenon
<1>5. LogOfOrder' /\ LogOfGroup'
  BY <1>1, <1>3, LogSame, Zenon
<1>6. CASE UNCHANGED <<mon, orders>>
  <2>1. WorldOK'
    BY <1>1, <1>3, <1>4, <1>6 DEF WorldOK
  <2>2. LogOfBids' /\ Recovered' /\ OneAtATime' /\ Announcements'
    BY <1>1, <1>3, <1>6, NothingNew, Zenon
  <2>3. Started'
    <3>1. \A m \in DOMAIN mon :
             ~mon[m].bid => \E c \in DOMAIN log : c <= j /\ CreatedAt(c, mon[m].order)
      BY <1>1, <1>4, Zenon DEF Started
    <3>2. \A c : \A m \in DOMAIN mon : CreatedAt(c, mon[m].order)' <=> CreatedAt(c, mon[m].order)
      BY <1>3, <1>6, Zenon DEF CreatedAt
    <3>3. \A m, n \in DOMAIN mon :
             ~mon[m].bid /\ ~mon[n].bid /\ mon[m].order = mon[n].order => m = n
      BY <1>1, Zenon DEF Started
    <3>4. \A m \in DOMAIN mon, c \in DOMAIN log :
             ~mon[m].bid /\ mon[m].at = "loop" /\ CreatedAt(c, mon[m].order) =>
                /\ c <= mon[m].pos
                /\ \A k \in DOMAIN log : c < k /\ k <= mon[m].pos => log[k].order # mon[m].order
      BY <1>1, Zenon DEF Started
    <3>5. mon' = mon /\ log' = log /\ pos' = j
      BY <1>3, <1>6, Zenon
    <3> QED BY <3>1, <3>2, <3>3, <3>4, <3>5, ZenonT(30) DEF Started
  <2>4. \A m \in DOMAIN mon' : Equipped(mon'[m], crowded')
    BY <1>1, <1>3, <1>6, Zenon
  <2> QED BY <1>5, <2>1, <2>2, <2>3, <2>4, Zenon DEF LeaseInv
<1>7. CASE /\ log[j].type = "created" /\ orders[log[j].order] = 0
           /\ mon' = Append(mon, newOrder(log[j].order, FALSE, j))
           /\ orders' = [orders EXCEPT ![log[j].order] = Len(mon) + 1]
  <2>1. PICK o, x, n : o = log[j].order /\ x = newOrder(o, FALSE, j) /\ n = Len(mon) + 1
    BY Zenon
  <2>2. o \in Orders /\ CreatedAt(j, o)
    BY <1>4, <1>7, <2>1, Domains, Zenon DEF CreatedAt
  <2>3. x.order = o /\ ~x.bid /\ x.pos = j /\ Equipped(x, crowded)
    <3>1. IsNew(x, o, FALSE, j)
      BY <2>1, NewFields, Zenon
    <3> QED BY <3>1, Zenon DEF IsNew
  <2>4. /\ DOMAIN mon' = DOMAIN mon \cup {n} /\ mon'[n] = x /\ n \notin DOMAIN mon
        /\ \A m \in DOMAIN mon : mon'[m] = mon[m]
    <3>1. mon' = Append(mon, x) /\ mon \in Seq(Monitors)
      BY <1>7, <2>1, Zenon DEF MonInv
    <3>2. \A v, d, k : v = Append(mon, d) /\ k = Len(mon) + 1 => Adds(mon, v, k, d)
      BY <3>1, OneAdded, Zenon
    <3>3. Adds(mon, mon', n, x)
      BY <2>1, <3>1, <3>2, Zenon
    <3> QED BY <3>3, Zenon DEF Adds
  <2>5. orders' \in [Orders -> Nat] /\ \A p \in Orders : p # o => orders'[p] = orders[p]
    <3>1. n \in Nat
      <4>1. ASSUME NEW S, NEW s \in Seq(S) PROVE Len(s) + 1 \in Nat
        OBVIOUS
      <4> QED BY <2>1, <4>1, Zenon DEF MonInv
    <3>2. orders \in [Orders -> Nat] /\ orders' = [orders EXCEPT ![o] = n]
      BY <1>1, <1>7, <2>1, Zenon DEF WorldOK
    <3> QED BY <2>2, <3>1, <3>2
  <2>6. WorldOK'
    <3>1. \A m \in DOMAIN mon' : mon'[m].pos <= Len(log)
      BY <1>1, <1>4, <2>3, <2>4 DEF WorldOK
    <3> QED BY <1>1, <1>3, <1>4, <2>5, <3>1 DEF WorldOK
  <2>7. LogOfBids'
    <3>1. ASSUME NEW i \in DOMAIN log, log[i].type = "created", log[i].order \in bids
          PROVE  \E m \in DOMAIN mon' : /\ mon'[m].order = log[i].order /\ ~mon'[m].bid
                                        /\ mon'[m].reservation /\ mon'[m].group
      <4>1. PICK m \in DOMAIN mon : /\ mon[m].order = log[i].order /\ ~mon[m].bid
                                    /\ mon[m].reservation /\ mon[m].group
        BY <1>1, <3>1, Zenon DEF LogOfBids
      <4> QED BY <2>4, <4>1, Zenon
    <3> QED BY <1>1, <1>3, <3>1, Zenon DEF LogOfBids
  <2>8. \A m \in DOMAIN mon' : Equipped(mon'[m], crowded')
    BY <1>1, <1>3, <2>3, <2>4
  <2>9. Alone' <=> Alone
    BY <2>3, <2>4 DEF Alone
  <2>10. OneAtATime'
    <3>1. ASSUME Alone, NEW m \in DOMAIN mon, mon[m].bid, mon[m].at # "drained"
          PROVE  orders'[mon[m].order] # 0 /\ mon[m].order # o
                 /\ \A i \in DOMAIN mon : mon[i].order = mon[m].order => mon[i].bid
      <4>1. /\ orders[mon[m].order] # 0 /\ mon[m].order \in Orders
            /\ \A i \in DOMAIN mon : mon[i].order = mon[m].order => mon[i].bid
        BY <1>1, <3>1, Domains, Zenon DEF OneAtATime, Ordered
      <4> QED BY <1>7, <2>1, <2>5, <4>1, Zenon
    <3>2. ASSUME Alone, NEW m \in DOMAIN mon', mon'[m].bid, mon'[m].at # "drained"
          PROVE  orders'[mon'[m].order] # 0
                 /\ \A i \in DOMAIN mon' : mon'[i].order = mon'[m].order => mon'[i].bid
      <4>1. m \in DOMAIN mon /\ mon'[m] = mon[m]
        BY <2>3, <2>4, <3>2
      <4>2. orders'[mon[m].order] # 0 /\ mon[m].order # o
            /\ \A i \in DOMAIN mon : mon[i].order = mon[m].order => mon[i].bid
        BY <3>1, <3>2, <4>1, Zenon
      <4> QED BY <2>3, <2>4, <4>1, <4>2
    <3> QED BY <2>9, <3>2, Zenon DEF OneAtATime
  <2>11. Started'
    <3>1. ASSUME NEW m \in DOMAIN mon, ~mon[m].bid
          PROVE  mon[m].order # o /\ \E c \in DOMAIN log : c <= j /\ CreatedAt(c, mon[m].order)
      <4>1. PICK c \in DOMAIN log : c <= pos /\ CreatedAt(c, mon[m].order)
        BY <1>1, <3>1, Zenon DEF Started
      <4>2. mon[m].order # o
        BY <1>1, <1>4, <1>7, <2>1, <4>1, Zenon DEF LogOfOrder, CreatedAt
      <4> QED BY <1>4, <4>1, <4>2, Zenon
    <3>2. ASSUME NEW c \in DOMAIN log, CreatedAt(c, o)
          PROVE  c <= j /\ \A k \in DOMAIN log : c < k /\ k <= j => log[k].order # o
      <4>1. c <= j /\ j <= c
        BY <1>1, <1>4, <1>7, <2>1, <3>2, Zenon DEF LogOfOrder, CreatedAt
      <4> QED BY <1>4, <4>1
    <3>3. \A c, p : CreatedAt(c, p)' <=> CreatedAt(c, p)
      BY <1>3, LogSame, Zenon
    <3>4. ASSUME NEW m \in DOMAIN mon', ~mon'[m].bid
          PROVE  \E c \in DOMAIN log' : c <= pos' /\ CreatedAt(c, mon'[m].order)
      <4>1. CASE m = n
        BY <1>3, <1>4, <2>2, <2>3, <2>4, <4>1, ZenonT(30)
      <4>2. CASE m \in DOMAIN mon
        BY <1>3, <2>4, <3>1, <3>4, <4>2, Zenon
      <4> QED BY <2>4, <4>1, <4>2
    <3>5. ASSUME NEW m \in DOMAIN mon', NEW i \in DOMAIN mon', ~mon'[m].bid, ~mon'[i].bid,
                 mon'[m].order = mon'[i].order
          PROVE  m = i
      <4>1. m = n \/ (m \in DOMAIN mon /\ ~mon[m].bid /\ mon'[m].order = mon[m].order)
        BY <2>4, <3>5
      <4>2. i = n \/ (i \in DOMAIN mon /\ ~mon[i].bid /\ mon'[i].order = mon[i].order)
        BY <2>4, <3>5
      <4>3. mon'[n].order = o
        BY <2>3, <2>4
      <4> QED BY <1>1, <3>1, <3>5, <4>1, <4>2, <4>3, Zenon DEF Started
    <3>6. ASSUME NEW m \in DOMAIN mon', NEW c \in DOMAIN log', ~mon'[m].bid, mon'[m].at = "loop",
                 CreatedAt(c, mon'[m].order)
          PROVE  /\ c <= mon'[m].pos
                 /\ \A k \in DOMAIN log' : c < k /\ k <= mon'[m].pos => log'[k].order # mon'[m].order
      <4>1. CASE m = n
        BY <1>3, <2>3, <2>4, <3>2, <3>6, <4>1, ZenonT(30)
      <4>2. CASE m \in DOMAIN mon
        BY <1>1, <1>3, <2>4, <3>6, <4>2, ZenonT(30) DEF Started
      <4> QED BY <2>4, <4>1, <4>2
    <3> QED BY <3>3, <3>4, <3>5, <3>6, Zenon DEF Started
  <2>12. Recovered'
    <3>1. \A m \in DOMAIN mon' : mon'[m].bid => m \in DOMAIN mon /\ mon'[m] = mon[m]
      BY <2>3, <2>4
    <3>2. /\ \A p : Over(p)' <=> Over(p)
          /\ \A p, c : EndedBefore(p, c)' <=> EndedBefore(p, c)
      BY <1>3, LogSame, Zenon
    <3>3. \A m \in DOMAIN mon', c \in DOMAIN log' :
             mon'[m].bid /\ log'[c].type = "created" /\ SameGroup(log'[c].order, mon'[m].order, crowded') =>
                \/ Over(mon[m].order) \/ EndedBefore(mon[m].order, c)
                \/ log'[c].order \notin bids' /\ market'[log'[c].order] \notin {"none", "open"}
      BY <1>1, <1>3, <3>1, Zenon DEF Recovered
    <3>4. \A c : \A m \in DOMAIN mon' : mon'[m].bid =>
             /\ Over(mon[m].order) <=> Over(mon[m].order)'
             /\ EndedBefore(mon[m].order, c) <=> EndedBefore(mon[m].order, c)'
      BY <3>1, <3>2, Zenon
    <3>5. \A m \in DOMAIN mon' : mon'[m].bid => market'[mon'[m].order] # "none"
      BY <1>1, <1>3, <3>1, ZenonT(30) DEF Recovered
    <3>6. \A m \in DOMAIN mon', k \in DOMAIN log' :
             /\ mon'[m].bid /\ mon'[m].at = "loop" /\ k <= mon'[m].pos
             /\ log'[k].order = mon'[m].order
             => log'[k].type = "created"
      BY <1>1, <1>3, <3>1 DEF Recovered
    <3> QED BY <3>3, <3>4, <3>5, <3>6, Zenon DEF Recovered
  <2>13. Announcements'
    <3>1. \A m \in DOMAIN mon : Over(mon[m].order) <=> Over(mon[m].order)'
      BY <1>3, <2>4, LogSame, Zenon
    <3>2. ASSUME NEW m \in DOMAIN mon, NEW p, Announcer(m, p) PROVE Announcer(m, p)'
      <4>1. (\A k \in DOMAIN log : ~CreatedAt(k, p)) => \A k \in DOMAIN log' : ~CreatedAt(k, p)'
        BY <1>3, LogSame, Zenon
      <4> QED BY <1>3, <2>4, <2>9, <3>1, <3>2, <4>1, Zenon DEF Announcer
    <3>3. ASSUME NEW p \in Orders, announced[p] > 0
          PROVE  market'[p] # "none" /\ \E m \in DOMAIN mon' : Announcer(m, p)'
      BY <1>1, <1>3, <2>4, <3>2, <3>3, Zenon DEF Announcements
    <3>4. ASSUME NEW p \in Orders, announced[p] > 1
          PROVE  \/ ~Alone \/ GroupOf[p] \in crowded'
                 \/ \E m \in DOMAIN mon' : mon'[m].bid /\ Over(mon[m].order)'
      BY <1>1, <1>3, <2>4, <3>1, <3>4, Zenon DEF Announcements
    <3> QED BY <1>3, <2>9, <3>3, <3>4, Zenon DEF Announcements
  <2> QED BY <1>5, <2>6, <2>7, <2>8, <2>10, <2>11, <2>12, <2>13, Zenon DEF LeaseInv
<1> QED BY <1>3, <1>6, <1>7, Zenon

\* Everything else changes neither a monitor nor the log.
LEMMA OtherLease ==
    ASSUME LeaseInv, StartFails \/ Shutdown \/ Drained \/ UNCHANGED vars
    PROVE  LeaseInv'
<1>1. /\ UNCHANGED <<pos, orders, mon, log, market, crowded, bids, announced>>
      /\ svc' = svc \/ svc' # "starting"
  BY DEF StartFails, Shutdown, Drained, vars, service, world
<1>2. WorldOK'
  BY <1>1, Zenon DEF LeaseInv, WorldOK
<1>3. LogOfOrder' /\ LogOfGroup'
  BY <1>1, LogSame, Zenon DEF LeaseInv
<1>4. LogOfBids' /\ Recovered' /\ OneAtATime' /\ Announcements'
  BY <1>1, NothingNew, Zenon DEF LeaseInv
<1>5. Started'
  BY <1>1, ZenonT(30) DEF LeaseInv, Started, CreatedAt
<1>6. \A m \in DOMAIN mon' : Equipped(mon'[m], crowded')
  BY <1>1, Zenon DEF LeaseInv
<1> QED BY <1>2, <1>3, <1>4, <1>5, <1>6, Zenon DEF LeaseInv

\* The service starts with no event, no monitor and no announcement.
LEMMA InitLease ==
    Init => LeaseInv
<1> SUFFICES ASSUME Init PROVE LeaseInv
  OBVIOUS
<1>1. /\ pos = 0 /\ mon = << >> /\ log = << >> /\ orders = [o \in Orders |-> 0]
      /\ announced = [o \in Orders |-> 0]
      /\ market \in [Orders -> {"none", "open", "leased", "gone"}]
      /\ bids \in SUBSET {o \in Orders : market[o] = "open"}
  BY DEF Init
<1>2. DOMAIN mon = {} /\ DOMAIN log = {} /\ Len(log) = 0
  BY <1>1
<1>3. WorldOK
  BY <1>1, <1>2 DEF WorldOK, MarketStates
<1>4. LogOfOrder /\ LogOfGroup
  BY <1>1, <1>2 DEF LogOfOrder, LogOfGroup
<1>5. LogOfBids
  BY <1>1, <1>2 DEF LogOfBids
<1>6. Started /\ Recovered /\ OneAtATime
  BY <1>2, Zenon DEF Started, Recovered, OneAtATime
<1>7. Announcements
  BY <1>1 DEF Announcements
<1> QED BY <1>2, <1>3, <1>4, <1>5, <1>6, <1>7, Zenon DEF LeaseInv

-----------------------------------------------------------------------------
(* Reservations *)

\* The monitors of ms that have resources reserved for o.
Holders(ms, o) == {m \in DOMAIN ms : ms[m].order = o /\ Holds(ms[m])}

\* The inductive invariant.
BidInv ==
    /\ MonInv
    /\ inventory \in [Orders -> Nat]
    /\ \A o \in Orders : inventory[o] = Cardinality(Holders(mon, o))

-----------------------------------------------------------------------------
(* Counting *)

\* The holders of an order are finitely many.
LEMMA HoldersFinite ==
    ASSUME NEW ms \in Seq(Monitors), NEW o
    PROVE  IsFiniteSet(Holders(ms, o)) /\ Cardinality(Holders(ms, o)) \in Nat
<1>1. DOMAIN ms = 1 .. Len(ms) /\ Len(ms) \in Nat
  OBVIOUS
<1>2. IsFiniteSet(DOMAIN ms)
  BY <1>1, FS_Interval
<1>3. Holders(ms, o) \subseteq DOMAIN ms
  BY DEF Holders
<1> QED BY <1>2, <1>3, FS_Subset, FS_CardinalityType

\* In ns the monitor m of ms is x, which adds or takes away what it holds.
Swapped(ms, ns, m, x) ==
    /\ ns \in Seq(Monitors) /\ DOMAIN ns = DOMAIN ms /\ ns[m] = x
    /\ \A i \in DOMAIN ms : i # m => ns[i] = ms[i]
    /\ \A o : o # x.order \/ (Holds(x) <=> Holds(ms[m])) => Holders(ns, o) = Holders(ms, o)
    /\ Holds(x) /\ ~Holds(ms[m]) =>
          Cardinality(Holders(ns, x.order)) = Cardinality(Holders(ms, x.order)) + 1
    /\ ~Holds(x) /\ Holds(ms[m]) =>
          Cardinality(Holders(ns, x.order)) = Cardinality(Holders(ms, x.order)) - 1

\* A monitor that is replaced by one of the same order.
LEMMA Replaced ==
    ASSUME NEW ms \in Seq(Monitors), NEW m \in DOMAIN ms, NEW x \in Monitors, x.order = ms[m].order,
           NEW ns, ns = [ms EXCEPT ![m] = x]
    PROVE  Swapped(ms, ns, m, x)
<1>1. /\ ns \in Seq(Monitors) /\ DOMAIN ns = DOMAIN ms /\ ns[m] = x
      /\ \A i \in DOMAIN ms : i # m => ns[i] = ms[i]
  OBVIOUS
<1>2. \A o : o # x.order \/ (Holds(x) <=> Holds(ms[m])) => Holders(ns, o) = Holders(ms, o)
  BY <1>1, Zenon DEF Holders
<1>3. IsFiniteSet(Holders(ms, x.order)) /\ IsFiniteSet(Holders(ns, x.order))
  BY <1>1, HoldersFinite, Zenon
<1>4. ASSUME Holds(x), ~Holds(ms[m])
      PROVE  Cardinality(Holders(ns, x.order)) = Cardinality(Holders(ms, x.order)) + 1
  <2>1. Holders(ns, x.order) = Holders(ms, x.order) \cup {m}
    BY <1>1, <1>4 DEF Holders
  <2>2. m \notin Holders(ms, x.order)
    BY <1>4, Zenon DEF Holders
  <2> QED BY <1>3, <2>1, <2>2, FS_AddElement, Zenon
<1>5. ASSUME ~Holds(x), Holds(ms[m])
      PROVE  Cardinality(Holders(ns, x.order)) = Cardinality(Holders(ms, x.order)) - 1
  <2>1. Holders(ns, x.order) = Holders(ms, x.order) \ {m}
    BY <1>1, <1>5 DEF Holders
  <2>2. m \in Holders(ms, x.order)
    BY <1>5 DEF Holders
  <2> QED BY <1>3, <2>1, <2>2, FS_RemoveElement, ZenonT(30)
<1> QED BY <1>1, <1>2, <1>4, <1>5, Zenon DEF Swapped

\* A monitor that holds a reservation shows in the count.
LEMMA HolderCounts ==
    ASSUME NEW ms \in Seq(Monitors), NEW m \in DOMAIN ms, Holds(ms[m])
    PROVE  Cardinality(Holders(ms, ms[m].order)) > 0
<1>1. m \in Holders(ms, ms[m].order)
  BY DEF Holders
<1>2. IsFiniteSet(Holders(ms, ms[m].order))
  BY HoldersFinite
<1> QED BY <1>1, <1>2, FS_EmptySet, FS_CardinalityType

\* A monitor that starts holds nothing.
LEMMA Added ==
    ASSUME NEW ms \in Seq(Monitors), NEW x \in Monitors, ~Holds(x)
    PROVE  /\ Append(ms, x) \in Seq(Monitors)
           /\ \A i \in DOMAIN Append(ms, x) :
                 (i \in DOMAIN ms /\ Append(ms, x)[i] = ms[i]) \/ Append(ms, x)[i] = x
           /\ \A o : Holders(Append(ms, x), o) = Holders(ms, o)
<1> DEFINE ns == Append(ms, x)
<1>1. /\ ns \in Seq(Monitors) /\ DOMAIN ms \subseteq DOMAIN ns
      /\ \A i \in DOMAIN ms : ns[i] = ms[i]
      /\ \A i \in DOMAIN ns : (i \in DOMAIN ms /\ ns[i] = ms[i]) \/ ns[i] = x
  OBVIOUS
<1> HIDE DEF ns
<1>2. \A o : Holders(ns, o) = Holders(ms, o)
  BY <1>1 DEF Holders
<1> QED BY <1>1, <1>2 DEF ns

-----------------------------------------------------------------------------
(* A monitor *)

\* A monitor that changes keeps the invariant if it stays tidy and the inventory follows what
\* it holds.
LEMMA MonitorChanges ==
    ASSUME BidInv, NEW m \in DOMAIN mon, NEW x \in Monitors, x.order = mon[m].order, Tidy(x),
           mon' = [mon EXCEPT ![m] = x], UNCHANGED <<svc, pos, log>>,
           \/ inventory' = inventory /\ (Holds(x) <=> Holds(mon[m]))
           \/ inventory' = [inventory EXCEPT ![x.order] = @ + 1] /\ Holds(x) /\ ~Holds(mon[m])
           \/ inventory' = [inventory EXCEPT ![x.order] = @ - 1] /\ ~Holds(x) /\ Holds(mon[m])
    PROVE  BidInv'
<1>1. mon \in Seq(Monitors) /\ inventory \in [Orders -> Nat] /\ x.order \in Orders
  BY MonitorFields, Zenon DEF BidInv, MonInv
<1>a. Swapped(mon, mon', m, x)
  BY <1>1, Replaced, Zenon
<1>2. /\ mon' \in Seq(Monitors) /\ DOMAIN mon' = DOMAIN mon /\ mon'[m] = x
      /\ \A i \in DOMAIN mon : i # m => mon'[i] = mon[i]
      /\ \A o : o # x.order \/ (Holds(x) <=> Holds(mon[m])) => Holders(mon', o) = Holders(mon, o)
      /\ Holds(x) /\ ~Holds(mon[m]) =>
            Cardinality(Holders(mon', x.order)) = Cardinality(Holders(mon, x.order)) + 1
      /\ ~Holds(x) /\ Holds(mon[m]) =>
            Cardinality(Holders(mon', x.order)) = Cardinality(Holders(mon, x.order)) - 1
  BY <1>a, Zenon DEF Swapped
<1>3. ASSUME NEW i \in DOMAIN mon' PROVE Tidy(mon'[i])
  <2>1. i \in DOMAIN mon /\ Tidy(mon[i])
    BY <1>2, Zenon DEF BidInv, MonInv
  <2> QED BY <1>2, <2>1, Zenon
<1>4. svc' # "starting"
  BY <1>1 DEF BidInv, MonInv
<1>5. \A o \in Orders : inventory[o] = Cardinality(Holders(mon, o))
  BY DEF BidInv, MonInv
<1>6. /\ inventory' \in [Orders -> Nat]
      /\ \A o \in Orders : inventory'[o] = Cardinality(Holders(mon', o))
  <2>1. CASE inventory' = inventory /\ (Holds(x) <=> Holds(mon[m]))
    BY <1>1, <1>2, <1>5, <2>1, ZenonT(30)
  <2>2. ASSUME NEW k \in Nat, inventory' = [inventory EXCEPT ![x.order] = k],
               k = Cardinality(Holders(mon', x.order))
        PROVE  /\ inventory' \in [Orders -> Nat]
               /\ \A o \in Orders : inventory'[o] = Cardinality(Holders(mon', o))
    <3>1. /\ inventory' \in [Orders -> Nat] /\ inventory'[x.order] = k
          /\ \A o \in Orders : o # x.order => inventory'[o] = inventory[o]
      BY ONLY <1>1, <2>2
    <3> QED BY <1>2, <1>5, <2>2, <3>1, ZenonT(30)
  <2>3. CASE inventory' = [inventory EXCEPT ![x.order] = @ + 1] /\ Holds(x) /\ ~Holds(mon[m])
    <3>1. inventory[x.order] + 1 \in Nat /\ inventory[x.order] = Cardinality(Holders(mon, x.order))
      BY <1>1, <1>5
    <3>2. inventory[x.order] + 1 = Cardinality(Holders(mon', x.order))
      BY <1>2, <2>3, <3>1, Zenon
    <3> QED BY <2>2, <2>3, <3>1, <3>2, ZenonT(30)
  <2>4. CASE inventory' = [inventory EXCEPT ![x.order] = @ - 1] /\ ~Holds(x) /\ Holds(mon[m])
    <3>1. inventory[x.order] \in Nat /\ inventory[x.order] = Cardinality(Holders(mon, x.order))
      BY <1>1, <1>5, Zenon
    <3>2. Cardinality(Holders(mon, x.order)) > 0
      BY <1>1, <2>4, HolderCounts, Zenon
    <3>3. inventory[x.order] - 1 \in Nat
      BY <3>1, <3>2
    <3>4. inventory[x.order] - 1 = Cardinality(Holders(mon', x.order))
      BY <1>2, <2>4, <3>1, Zenon
    <3> QED BY <2>2, <2>4, <3>3, <3>4, Zenon
  <2> QED BY <2>1, <2>3, <2>4, Zenon
<1> QED BY <1>2, <1>3, <1>4, <1>6, Zenon DEF BidInv, MonInv

\* A monitor that stays in its loop, or is done with it, keeps what it holds.
LEMMA Keeps ==
    ASSUME BidInv, NEW m \in DOMAIN mon, NEW x \in Monitors, x.order = mon[m].order, Tidy(x),
           Holds(x) <=> Holds(mon[m]), Stays(m, x), UNCHANGED <<svc, pos, log>>
    PROVE  BidInv'
BY MonitorChanges, Zenon DEF Stays

\* A monitor that leaves its loop gives back the reservation that it has not won a lease with.
LEMMA GivesBack ==
    ASSUME BidInv, NEW m \in DOMAIN mon, NEW x \in Monitors, x.order = mon[m].order, Tidy(x),
           x.at = "loop", Holds(x) <=> Holds(mon[m]), Leaves(m, x), UNCHANGED <<svc, pos, log>>
    PROVE  BidInv'
<1> DEFINE y == [x EXCEPT !.at = "waiting", !.pos = 0]
<1>1. /\ y \in Monitors /\ y.order = x.order /\ y.at = "waiting" /\ y.call = x.call
      /\ y.reservation = x.reservation /\ y.won = x.won /\ y.unkept = x.unkept
  BY ZenonT(30) DEF Monitors
<1>2. /\ mon' = [mon EXCEPT ![m] = y]
      /\ inventory' = IF Unreserves(x) /\ inventory[x.order] > 0
                      THEN [inventory EXCEPT ![x.order] = @ - 1] ELSE inventory
  BY DEF Leaves
<1> HIDE DEF y
<1>3. Tidy(y)
  BY <1>1, Zenon DEF Tidy
<1>4. Holds(x) <=> \/ x.reservation \/ x.unkept \/ (x.call.op = "reserve" /\ x.call.result = "ok")
  BY HoldsFields, Zenon
<1>5. Holds(y) <=> \/ x.reservation /\ x.won
                   \/ x.unkept \/ (x.call.op = "reserve" /\ x.call.result = "ok")
  BY <1>1, HoldsFields
<1>6. CASE Unreserves(x)
  <2>1. ~Holds(y) /\ Holds(mon[m])
    BY <1>4, <1>5, <1>6 DEF Unreserves, Tidy
  <2>2. inventory[x.order] > 0
    <3>1. mon \in Seq(Monitors) /\ mon[m].order \in Orders
      BY MonitorFields, Zenon DEF BidInv, MonInv
    <3> QED BY <2>1, <3>1, HolderCounts DEF BidInv, MonInv
  <2> QED BY <1>1, <1>2, <1>3, <1>6, <2>1, <2>2, MonitorChanges, ZenonT(30)
<1>7. CASE ~Unreserves(x)
  <2>1. Holds(y) <=> Holds(mon[m])
    BY <1>4, <1>5, <1>7 DEF Unreserves
  <2>2. inventory' = inventory
    BY <1>2, <1>7
  <2> QED BY <1>1, <1>2, <1>3, <2>1, <2>2, MonitorChanges, ZenonT(30)
<1> QED BY <1>6, <1>7

\* Reserve and Broadcast return.
LEMMA ReturnStep ==
    ASSUME BidInv, NEW m \in DOMAIN mon, NEW r \in {"ok", "error"}, NEW accepted \in BOOLEAN,
           ReserveReturns(m, r) \/ BroadcastReturns(m, r, accepted)
    PROVE  BidInv'
<1>1. mon[m] \in Monitors /\ mon[m].call \in Calls /\ Tidy(mon[m])
  <2>1. mon[m] \in Monitors /\ Tidy(mon[m])
    BY DEF BidInv, MonInv
  <2> QED BY <2>1, MonitorFields, Zenon
<1>2. PICK c \in Calls : c = [mon[m].call EXCEPT !.result = r] /\ c.op = mon[m].call.op /\ c.result = r
  <2>1. ASSUME NEW d \in Calls
        PROVE  \E c \in Calls : c = [d EXCEPT !.result = r] /\ c.op = d.op /\ c.result = r
    BY ResultSet, ZenonT(30)
  <2> QED BY <1>1, <2>1, Zenon
<1> DEFINE x == WithCall(mon[m], c)
<1>3. UNCHANGED <<svc, pos, log>> /\ mon' = [mon EXCEPT ![m] = x]
  BY <1>2, Zenon DEF ReserveReturns, BroadcastReturns, service, WithCall
<1>4. /\ x \in Monitors /\ x.order = mon[m].order /\ x.at = mon[m].at /\ x.call = c
      /\ x.reservation = mon[m].reservation /\ x.won = mon[m].won /\ x.unkept = mon[m].unkept
  <2>1. Like(x, mon[m]) /\ x.at = mon[m].at /\ x.won = mon[m].won /\ x.call = c
    BY <1>1, CallChanged, Zenon
  <2> QED BY <2>1, Zenon DEF Like
<1> HIDE DEF x
<1>5. Tidy(x)
  BY <1>1, <1>2, <1>4 DEF Tidy
<1>6. /\ Holds(x) <=> \/ x.reservation /\ (x.at = "loop" \/ x.won)
                      \/ x.unkept \/ (x.call.op = "reserve" /\ x.call.result = "ok")
      /\ Holds(mon[m]) <=> \/ mon[m].reservation /\ (mon[m].at = "loop" \/ mon[m].won)
                           \/ mon[m].unkept \/ (mon[m].call.op = "reserve" /\ mon[m].call.result = "ok")
  BY <1>1, <1>4, HoldsFields, Zenon
<1>7. CASE ReserveReturns(m, r)
  <2>1. /\ mon[m].call = Call("reserve")
        /\ inventory' = IF r = "ok" THEN [inventory EXCEPT ![x.order] = @ + 1] ELSE inventory
    BY <1>4, <1>7 DEF ReserveReturns
  <2>2. mon[m].call.op = "reserve" /\ mon[m].call.result = "pending"
    BY <1>1, <2>1, CallFacts
  <2>3. ~mon[m].reservation /\ ~mon[m].unkept
    BY <1>1, <2>2 DEF Tidy
  <2>4. CASE r = "ok"
    <3>1. Holds(x) /\ ~Holds(mon[m])
      BY <1>2, <1>4, <1>6, <2>2, <2>3, <2>4, SMTT(30)
    <3>2. inventory' = [inventory EXCEPT ![x.order] = @ + 1]
      BY <2>1, <2>4
    <3> QED BY <1>3, <1>4, <1>5, <3>1, <3>2, MonitorChanges, ZenonT(30)
  <2>5. CASE r = "error"
    <3>1. Holds(x) <=> Holds(mon[m])
      BY <1>2, <1>4, <1>6, <2>2, <2>3, <2>5, SMTT(30)
    <3>2. inventory' = inventory
      BY <2>1, <2>5
    <3> QED BY <1>3, <1>4, <1>5, <3>1, <3>2, MonitorChanges, ZenonT(30)
  <2> QED BY <2>4, <2>5
<1>8. CASE BroadcastReturns(m, r, accepted)
  <2>1. mon[m].call = Call("bid") /\ inventory' = inventory
    BY <1>8 DEF BroadcastReturns
  <2>2. mon[m].call.op = "bid"
    BY <1>1, <2>1, CallFacts
  <2>3. Holds(x) <=> Holds(mon[m])
    BY <1>2, <1>4, <1>6, <2>2
  <2> QED BY <1>3, <1>4, <1>5, <2>1, <2>3, MonitorChanges, ZenonT(30)
<1> QED BY <1>7, <1>8

\* The monitor reads an event: it goes on, or leaves with the lease or without it.
LEMMA EventStep ==
    ASSUME BidInv, NEW m \in DOMAIN mon, MonitorEvent(m)
    PROVE  BidInv'
<1>1. mon[m] \in Monitors /\ Tidy(mon[m])
  BY DEF BidInv, MonInv
<1>2. PICK w \in BOOLEAN :
         Leaves(m, WithEvent(mon[m], w)) \/ Stays(m, WithEvent(mon[m], w))
  <2> DEFINE w == Concerns(mon[m], log[mon[m].pos + 1]) /\ log[mon[m].pos + 1].type = "won"
  <2>1. w \in BOOLEAN
    OBVIOUS
  <2> QED BY <2>1, Zenon DEF MonitorEvent, WithEvent
<1>3. mon[m].at = "loop" /\ UNCHANGED <<svc, pos, log>>
  BY DEF MonitorEvent, service
<1> DEFINE x == WithEvent(mon[m], w)
<1>4. /\ x \in Monitors /\ x.order = mon[m].order /\ x.at = "loop" /\ x.call = mon[m].call
      /\ x.reservation = mon[m].reservation /\ x.unkept = mon[m].unkept
  BY <1>1, <1>3, EventRead, ZenonT(30) DEF Like
<1>5. Leaves(m, x) \/ Stays(m, x)
  BY <1>2
<1> HIDE DEF x
<1>6. Tidy(x)
  BY <1>1, <1>4, Zenon DEF Tidy
<1>7. Holds(x) <=> Holds(mon[m])
  BY <1>3, <1>4, Zenon DEF Holds
<1> QED BY <1>3, <1>4, <1>5, <1>6, <1>7, Keeps, GivesBack, ZenonT(30)

\* The monitor takes the result of a call, or sees the service stop.
LEMMA ResultStep ==
    ASSUME BidInv, NEW m \in DOMAIN mon,
           (\E r \in {"ok", "mismatch", "error"} : GroupFetched(m, r)) \/ Reserved(m) \/ BidPlaced(m)
             \/ MonitorShutdown(m)
    PROVE  BidInv'
<1>1. mon[m] \in Monitors /\ mon[m].call \in Calls /\ Tidy(mon[m])
  <2>1. mon[m] \in Monitors /\ Tidy(mon[m])
    BY DEF BidInv, MonInv
  <2> QED BY <2>1, MonitorFields, Zenon
<1>2. mon[m].at = "loop" /\ UNCHANGED <<svc, pos, log>>
  BY DEF GroupFetched, Reserved, BidPlaced, MonitorShutdown, service
<1>3. Holds(mon[m]) <=> \/ mon[m].reservation \/ mon[m].unkept
                        \/ (mon[m].call.op = "reserve" /\ mon[m].call.result = "ok")
  BY <1>1, <1>2, HoldsFields, Zenon
<1>4. ASSUME NEW x, Like(x, mon[m]), x.at = "loop",
             x.call.op # "reserve" \/ x.call.result # "ok",
             mon[m].call.op # "reserve" \/ mon[m].call.result # "ok",
             mon[m].call.op \in {"group", "reserve"} \/ x.call.op \notin {"group", "reserve"},
             Leaves(m, x) \/ Stays(m, x)
      PROVE  BidInv'
  <2>1. /\ x \in Monitors /\ x.order = mon[m].order /\ x.reservation = mon[m].reservation
        /\ x.unkept = mon[m].unkept
    BY <1>4, Zenon DEF Like
  <2>2. Holds(x) <=> \/ x.reservation \/ x.unkept \/ (x.call.op = "reserve" /\ x.call.result = "ok")
    BY <1>4, <2>1, HoldsFields, Zenon
  <2>3. Holds(x) <=> Holds(mon[m])
    BY <1>3, <1>4, <2>1, <2>2, ZenonT(30)
  <2>4. Tidy(x)
    BY <1>1, <1>4, <2>1 DEF Tidy
  <2> QED BY <1>2, <1>4, <2>1, <2>3, <2>4, Keeps, GivesBack, ZenonT(30)
<1>5. PICK y : y = WithCall(mon[m], NoCall)
  BY Zenon
<1>6. /\ Like(y, mon[m]) /\ y.at = "loop" /\ y.call = NoCall
      /\ y \in Monitors /\ y.order = mon[m].order /\ y.reservation = mon[m].reservation
      /\ y.unkept = mon[m].unkept
  <2>1. Like(y, mon[m]) /\ y.at = mon[m].at /\ y.call = NoCall
    BY <1>1, <1>5, NewCalls, CallChanged, Zenon
  <2> QED BY <1>2, <2>1, Zenon DEF Like
<1>7. ASSUME NEW r \in {"ok", "mismatch", "error"}, GroupFetched(m, r) PROVE BidInv'
  <2>1. mon[m].call = Call("group")
    BY <1>7 DEF GroupFetched
  <2>2. mon[m].call.op = "group"
    BY <1>1, <2>1, CallFacts, SMTT(30)
  <2>3. CASE Leaves(m, y)
    BY <1>4, <1>6, <2>2, <2>3, NewCalls, SMTT(30)
  <2>4. ASSUME NEW c \in {NoCall, Call("reserve")}, Stays(m, [mon[m] EXCEPT !.group = TRUE, !.call = c])
        PROVE  BidInv'
    <3> DEFINE x == WithGroup(mon[m], c)
    <3>2. c \in Calls /\ c.op \in {"none", "reserve"} /\ c.result = "pending"
      BY NewCalls, Zenon
    <3>3. Like(x, mon[m]) /\ x.at = mon[m].at /\ x.call = c
      BY <1>1, <3>2, GroupChanged, ZenonT(30)
    <3>4. Stays(m, x)
      BY <2>4, Zenon DEF WithGroup
    <3> HIDE DEF x
    <3> QED BY <1>2, <1>4, <2>2, <3>2, <3>3, <3>4, SMTT(30)
  <2>5. Leaves(m, y) \/ \E c \in {NoCall, Call("reserve")} : Stays(m, [mon[m] EXCEPT !.group = TRUE, !.call = c])
    BY <1>5, <1>7, ZenonT(30) DEF GroupFetched, WithCall
  <2> QED BY <2>3, <2>4, <2>5, Zenon
<1>8. CASE Reserved(m)
  <2>1. mon[m].call.op = "reserve" /\ mon[m].call.result \in {"ok", "error"}
    BY <1>1, <1>8, CallFacts DEF Reserved
  <2>2. ~mon[m].reservation /\ ~mon[m].unkept
    BY <1>1, <2>1 DEF Tidy
  <2>3. CASE mon[m].call.result = "error"
    <3>1. Leaves(m, y)
      BY <1>5, <1>8, <2>3, Zenon DEF Reserved, WithCall
    <3> QED BY <1>4, <1>6, <2>1, <2>3, <3>1, NewCalls, SMTT(30)
  <2>4. CASE mon[m].call.result = "ok"
    <3>1. Holds(mon[m])
      BY <1>3, <2>1, <2>4
    <3>2. PICK u, k : u = WithUnkept(y) /\ k = WithReservation(y, Call("bid"))
      BY Zenon
    <3>3. Stays(m, u) \/ Stays(m, k)
      BY <1>5, <1>8, <2>4, <3>2, ZenonT(30) DEF Reserved, WithCall, WithReservation, WithUnkept
    <3>4. Call("bid") \in Calls /\ Call("bid").op = "bid"
      BY NewCalls
    <3>5. CASE Stays(m, u)
      <4>1. /\ u \in Monitors /\ u.order = y.order /\ u.call = y.call /\ u.unkept
            /\ u.reservation = y.reservation
        BY <1>6, <3>2, ReservationUnkept, Zenon
      <4>2. Holds(u)
        BY <4>1, HoldsFields, Zenon
      <4>3. Tidy(u)
        BY <1>6, <2>2, <4>1, NewCalls, SMTT(30) DEF Tidy
      <4> QED BY <1>2, <1>6, <3>1, <3>5, <4>1, <4>2, <4>3, Keeps, SMTT(30)
    <3>6. CASE Stays(m, k)
      <4>1. /\ k \in Monitors /\ k.order = y.order /\ k.at = y.at /\ k.call = Call("bid")
            /\ k.reservation /\ k.unkept = y.unkept
        BY <1>6, <3>2, <3>4, ReservationKept, Zenon
      <4>2. Holds(k)
        BY <1>6, <4>1, HoldsFields, ZenonT(30)
      <4>3. Tidy(k)
        BY <1>6, <2>2, <3>4, <4>1, SMTT(30) DEF Tidy
      <4> QED BY <1>2, <1>6, <3>1, <3>6, <4>1, <4>2, <4>3, Keeps, SMTT(30)
    <3> QED BY <3>3, <3>5, <3>6
  <2> QED BY <2>1, <2>3, <2>4
<1>9. CASE BidPlaced(m)
  <2>1. mon[m].call.op = "bid"
    BY <1>9 DEF BidPlaced
  <2>2. PICK f : f = WithFailed(y)
    BY Zenon
  <2>3. Leaves(m, f) \/ Stays(m, y)
    BY <1>5, <1>9, <2>2, Zenon DEF BidPlaced, WithCall, WithFailed
  <2>4. Like(f, y) /\ f.at = y.at /\ f.call = y.call
    BY <1>6, <2>2, FailedChanged, Zenon
  <2>5. Like(f, mon[m])
    BY <1>6, <2>4, ZenonT(30) DEF Like
  <2> QED BY <1>4, <1>6, <2>1, <2>3, <2>4, <2>5, NewCalls, SMTT(30)
<1>10. CASE MonitorShutdown(m)
  <2>1. Leaves(m, mon[m])
    BY <1>10 DEF MonitorShutdown
  <2> QED BY <1>1, <1>2, <2>1, GivesBack
<1> QED BY <1>7, <1>8, <1>9, <1>10

\* The monitor is done, and the service receives it.
LEMMA DoneStep ==
    ASSUME BidInv, NEW m \in DOMAIN mon, MonitorDone(m) \/ Drain(m)
    PROVE  BidInv'
<1>1. mon[m] \in Monitors /\ Tidy(mon[m])
  BY DEF BidInv, MonInv
<1>2. mon[m].at \in {"waiting", "done"} /\ UNCHANGED <<svc, pos, log, inventory>>
  BY DEF MonitorDone, Drain, service, world
<1>3. mon[m].at # "loop"
  BY <1>2
<1>4. CASE MonitorDone(m)
  <2>0. PICK u : u = (mon[m].unkept \/ mon[m].call = [op |-> "reserve", result |-> "ok"])
    BY Zenon
  <2>1. u \in BOOLEAN /\ mon' = [mon EXCEPT ![m] = WithEnd(mon[m], u)]
    BY <1>4, <2>0, Zenon DEF MonitorDone, WithEnd
  <2>2. PICK x : x = WithEnd(mon[m], u)
    BY Zenon
  <2>3. /\ x \in Monitors /\ x.order = mon[m].order /\ x.at = "done" /\ x.won = mon[m].won
        /\ x.call = NoCall /\ x.reservation = mon[m].reservation /\ x.unkept = u
    BY <1>1, <2>1, <2>2, Ended, Zenon
  <2>4. /\ x.call.op = "none"
        /\ u <=> mon[m].unkept \/ (mon[m].call.op = "reserve" /\ mon[m].call.result = "ok")
    <3>1. mon[m].call \in Calls
      BY <1>1, MonitorFields, Zenon
    <3>2. mon[m].call = [op |-> "reserve", result |-> "ok"] <=>
             mon[m].call.op = "reserve" /\ mon[m].call.result = "ok"
      BY <3>1, CallFacts, Zenon
    <3> QED BY <2>0, <2>3, <3>2, NewCalls, Zenon
  <2>5. Holds(x) <=> Holds(mon[m])
    <3>1. Holds(x) <=> (x.reservation /\ x.won) \/ x.unkept
      BY <2>3, <2>4, HoldsFields
    <3> QED BY <1>3, <2>0, <2>3, <3>1, Zenon DEF Holds
  <2>6. Tidy(x)
    <3>1. mon[m].reservation => ~mon[m].unkept /\ mon[m].call.op # "reserve"
      BY <1>1 DEF Tidy
    <3>2. ~(x.reservation /\ x.unkept)
      BY <2>1, <2>3, <2>4, <3>1, Zenon
    <3> QED BY <2>4, <3>2 DEF Tidy
  <2> QED BY <1>2, <2>1, <2>2, <2>3, <2>5, <2>6, MonitorChanges, ZenonT(30)
<1>5. CASE Drain(m)
  <2>1. PICK x : x = WithAt(mon[m], "drained")
    BY Zenon
  <2>2. Like(x, mon[m]) /\ x.at = "drained" /\ x.won = mon[m].won /\ x.call = mon[m].call
    <3>1. "drained" \in {"loop", "waiting", "done", "drained"}
      OBVIOUS
    <3> QED BY <1>1, <2>1, <3>1, AtChanged, Zenon
  <2>3. /\ x \in Monitors /\ x.order = mon[m].order /\ x.reservation = mon[m].reservation
        /\ x.unkept = mon[m].unkept /\ x.at # "loop"
    BY <2>2 DEF Like
  <2>4. (Holds(x) <=> Holds(mon[m])) /\ Tidy(x)
    BY <1>1, <1>3, <2>2, <2>3, ZenonT(30) DEF Holds, Tidy
  <2>5. mon' = [mon EXCEPT ![m] = x]
    BY <1>5, <2>1, Zenon DEF Drain, WithAt
  <2> QED BY <1>2, <2>3, <2>4, <2>5, MonitorChanges, ZenonT(30)
<1> QED BY <1>4, <1>5

-----------------------------------------------------------------------------
(* The service and the market *)

\* newOrder: a new monitor asks for its group, and holds nothing.
LEMMA NewMonitor ==
    ASSUME NEW o \in Orders, NEW bid \in BOOLEAN, NEW from \in Nat
    PROVE  newOrder(o, bid, from) \in Monitors /\ ~Holds(newOrder(o, bid, from)) /\ Tidy(newOrder(o, bid, from))
<1> DEFINE x == newOrder(o, bid, from)
<1>1. /\ x \in Monitors /\ x.call = Call("group")
      /\ x.reservation = FALSE /\ x.unkept = FALSE
  BY NewCalls, Zenon DEF Monitors, newOrder
<1> HIDE DEF x
<1>2. ~Holds(x)
  BY <1>1, HoldsFields, NewCalls
<1>3. Tidy(x)
  BY <1>1, Zenon DEF Tidy
<1> QED BY <1>1, <1>2, <1>3 DEF x

\* The monitors of the query at the start hold nothing yet.
LEMMA StartStep ==
    ASSUME BidInv, Start
    PROVE  BidInv'
<1> DEFINE n == Cardinality(Open)
<1>1. svc' = "running" /\ mon = << >> /\ UNCHANGED <<pos, log, inventory>>
  BY DEF Start, BidInv, MonInv, world
<1>2. CASE mon' = mon
  BY <1>1, <1>2, Zenon DEF BidInv, MonInv
<1>3. ASSUME NEW i \in DOMAIN OrderSeq, mon' = [k \in 1 .. n |-> newOrder(OrderSeq[i], TRUE, pos)]
      PROVE  BidInv'
  <2>1. n \in Nat
    <3>1. IsFiniteSet(DOMAIN OrderSeq)
      <4>1. DOMAIN OrderSeq = 1 .. Len(OrderSeq) /\ Len(OrderSeq) \in Nat
        BY BidEngineAssumption
      <4> QED BY <4>1, FS_Interval
    <3>2. Open \subseteq DOMAIN OrderSeq
      BY DEF Open, Listed
    <3> QED BY <3>1, <3>2, FS_Subset, FS_CardinalityType
  <2> HIDE DEF n
  <2>2. PICK x \in Monitors : x = newOrder(OrderSeq[i], TRUE, pos) /\ ~Holds(x) /\ Tidy(x)
    <3>1. OrderSeq[i] \in Orders /\ pos \in Nat /\ TRUE \in BOOLEAN
      BY DEF BidInv, MonInv, Orders
    <3> QED BY <3>1, NewMonitor, Zenon
  <2>3. mon' = [k \in 1 .. n |-> x]
    BY <1>3, <2>2, Zenon
  <2>4. mon' \in Seq(Monitors) /\ \A k \in DOMAIN mon' : mon'[k] = x
    BY <2>1, <2>3
  <2>5. \A o \in Orders : Holders(mon', o) = Holders(mon, o)
    <3>1. \A o : Holders(mon', o) = {}
      BY <2>2, <2>4, Zenon DEF Holders
    <3>2. \A o : Holders(mon, o) = {}
      BY <1>1 DEF Holders
    <3> QED BY <3>1, <3>2
  <2> QED BY <1>1, <2>2, <2>4, <2>5, Zenon DEF BidInv, MonInv
<1> QED BY <1>2, <1>3, Zenon DEF Start, Listed

\* The service reads an event, and starts a monitor for a new order.
LEMMA TakeEventStep ==
    ASSUME BidInv, TakeEvent
    PROVE  BidInv'
<1>1. /\ svc = "running" /\ pos < Len(log) /\ pos' = pos + 1 /\ UNCHANGED <<svc, log, inventory>>
      /\ mon' = Append(mon, newOrder(log[pos + 1].order, FALSE, pos + 1)) \/ mon' = mon
  BY Zenon DEF TakeEvent, world
<1>2. /\ mon \in Seq(Monitors) /\ pos + 1 \in Nat /\ log[pos + 1].order \in Orders
      /\ \A m \in DOMAIN mon : Tidy(mon[m])
  <2>1. /\ mon \in Seq(Monitors) /\ \A m \in DOMAIN mon : Tidy(mon[m])
        /\ pos \in Nat /\ log \in Seq([type : {"created", "won", "lost", "closed"}, order : Orders])
    BY Zenon DEF BidInv, MonInv
  <2>2. log[pos + 1] \in [type : {"created", "won", "lost", "closed"}, order : Orders]
    <3>1. ASSUME NEW S, NEW s \in Seq(S), NEW n \in Nat, n < Len(s) PROVE s[n + 1] \in S
      BY <3>1
    <3> QED BY <1>1, <2>1, <3>1, Zenon
  <2> QED BY <2>1, <2>2
<1>3. CASE mon' = mon
  BY <1>1, <1>2, <1>3, Zenon DEF BidInv, MonInv
<1>4. CASE mon' = Append(mon, newOrder(log[pos + 1].order, FALSE, pos + 1))
  <2>1. PICK x \in Monitors : x = newOrder(log[pos + 1].order, FALSE, pos + 1) /\ ~Holds(x) /\ Tidy(x)
    <3>1. FALSE \in BOOLEAN
      OBVIOUS
    <3> QED BY <1>2, <3>1, NewMonitor, Zenon
  <2>2. /\ mon' \in Seq(Monitors)
        /\ \A i \in DOMAIN mon' : (i \in DOMAIN mon /\ mon'[i] = mon[i]) \/ mon'[i] = x
        /\ \A o : Holders(mon', o) = Holders(mon, o)
    BY <1>2, <1>4, <2>1, Added, ZenonT(30)
  <2>3. \A i \in DOMAIN mon' : Tidy(mon'[i])
    BY <1>2, <2>1, <2>2, Zenon
  <2>4. svc' # "starting"
    BY <1>1
  <2> QED BY <1>1, <1>2, <2>2, <2>3, <2>4, ZenonT(30) DEF BidInv, MonInv
<1> QED BY <1>1, <1>3, <1>4, Zenon

\* Everything else changes neither a monitor nor a reservation.
LEMMA OtherStep ==
    ASSUME BidInv,
           \/ StartFails \/ Shutdown \/ Drained \/ UNCHANGED vars
           \/ \E o \in Orders : OrderCreated(o) \/ OrderClosed(o)
                                \/ \E mine \in BOOLEAN : LeaseCreated(o, mine)
    PROVE  BidInv'
<1> DEFINE Evs == [type : {"created", "won", "lost", "closed"}, order : Orders]
<1>1. UNCHANGED <<mon, pos, inventory>> /\ (svc' = svc \/ svc' # "starting")
  BY DEF StartFails, Shutdown, Drained, vars, service, world, OrderCreated, OrderClosed, LeaseCreated
<1>2. log' = log \/ \E e \in Evs : log' = Append(log, e)
  <2>1. ASSUME NEW o \in Orders, NEW t \in {"created", "won", "lost", "closed"}, Publish(t, o)
        PROVE  \E e \in Evs : log' = Append(log, e)
    BY <2>1 DEF Publish
  <2>2. ASSUME NEW o \in Orders, OrderCreated(o) \/ OrderClosed(o)
        PROVE  \E e \in Evs : log' = Append(log, e)
    BY <2>1, <2>2 DEF OrderCreated, OrderClosed
  <2>3. ASSUME NEW o \in Orders, NEW mine \in BOOLEAN, LeaseCreated(o, mine)
        PROVE  \E e \in Evs : log' = Append(log, e)
    BY <2>1, <2>3 DEF LeaseCreated
  <2>4. ASSUME StartFails \/ Shutdown \/ Drained \/ UNCHANGED vars PROVE log' = log
    BY <2>4 DEF StartFails, Shutdown, Drained, vars, service, world
  <2> QED BY <2>2, <2>3, <2>4, Zenon
<1>3. log' \in Seq(Evs)
  <2>1. log \in Seq(Evs)
    BY DEF BidInv, MonInv
  <2> HIDE DEF Evs
  <2> QED BY <1>2, <2>1
<1> QED BY <1>1, <1>3, ZenonT(30) DEF BidInv, MonInv

-----------------------------------------------------------------------------
(* The invariant *)

\* The bid engine starts without monitors and without reservations.
LEMMA InitBidInv ==
    Init => BidInv
<1> SUFFICES ASSUME Init PROVE BidInv
  OBVIOUS
<1>1. /\ mon = << >> /\ pos = 0 /\ log = << >> /\ inventory = [o \in Orders |-> 0]
  BY DEF Init
<1>2. \A o \in Orders : Holders(mon, o) = {}
  BY <1>1 DEF Holders
<1>3. \A o \in Orders : inventory[o] = Cardinality(Holders(mon, o))
  BY <1>1, <1>2, FS_EmptySet, Zenon
<1> QED BY <1>1, <1>3 DEF BidInv, MonInv

\* Every step of the service, of a monitor and of the market keeps the invariant.
LEMMA NextBidInv ==
    BidInv /\ [Next]_vars => BidInv'
<1> SUFFICES ASSUME BidInv, [Next]_vars PROVE BidInv'
  OBVIOUS
<1>1. ASSUME NEW m \in DOMAIN mon, MonitorNext(m) PROVE BidInv'
  <2>1. TRUE \in BOOLEAN
    OBVIOUS
  <2> QED BY <1>1, <2>1, ReturnStep, EventStep, ResultStep, DoneStep, ZenonT(30) DEF MonitorNext
<1> QED BY <1>1, DoneStep, StartStep, TakeEventStep, OtherStep, Zenon DEF Next

\* The inductive invariant of the bid engine.
THEOREM BidEngineInvariant == Spec => []BidInv
BY InitBidInv, NextBidInv, PTL DEF Spec

\* For any orders and groups, however events, calls and the end of the service interleave in
\* order.run: the reservations in the inventory are those that a monitor holds, that a lease
\* was won with, or that nobody read or kept; no other one is lost or doubled.
THEOREM ReservationsAreAccounted == Spec => []ReservationsAccounted
<1>1. BidInv => ReservationsAccounted
  BY DEF BidInv, MonInv, ReservationsAccounted, Holders
<1> QED BY <1>1, BidEngineInvariant, PTL

-----------------------------------------------------------------------------
(* Leases *)

\* The query at the start: its monitors are for an order that the chain has had before.
LEMMA StartLease ==
    ASSUME LeaseInv, MonInv, Start
    PROVE  LeaseInv'
<1>1. /\ WorldOK /\ LogOfOrder /\ LogOfGroup /\ LogOfBids /\ Announcements
      /\ svc' = "running" /\ pos = 0 /\ mon = << >> /\ UNCHANGED <<pos, log, market, crowded, bids, announced>>
  BY Zenon DEF Start, MonInv, world, LeaseInv, WorldOK
<1>2. DOMAIN mon = {}
  BY <1>1
<1>3. \A o \in Orders : ~(announced[o] > 0) /\ ~(announced[o] > 1)
  <2>1. \A o \in Orders : ~(announced[o] > 0) /\ announced[o] \in Nat
    BY <1>1, <1>2, Zenon DEF Announcements, WorldOK
  <2> QED BY <2>1
<1>4. LogOfOrder' /\ LogOfGroup'
  BY <1>1, LogSame, Zenon
<1>5. LogOfBids'
  BY <1>1, <1>2, Zenon DEF LogOfBids
<1>6. Announcements'
  BY <1>1, <1>3, Zenon DEF Announcements
<1>7. CASE UNCHANGED <<mon, orders>>
  <2>1. WorldOK'
    BY <1>1, <1>7 DEF WorldOK
  <2>2. DOMAIN mon' = {}
    BY <1>2, <1>7
  <2> QED BY <1>4, <1>5, <1>6, <2>1, <2>2, ZenonT(30) DEF LeaseInv, Started, Recovered, OneAtATime
<1>8. ASSUME NEW i \in Listed, Open # {},
             mon' = [k \in 1 .. Cardinality(Open) |-> newOrder(OrderSeq[i], TRUE, pos)],
             orders' = [orders EXCEPT ![OrderSeq[i]] = Cardinality(Open)]
      PROVE  LeaseInv'
  <2>1. PICK r, n, x : r = OrderSeq[i] /\ n = Cardinality(Open) /\ x = newOrder(r, TRUE, pos)
    BY Zenon
  <2>2. r \in Orders /\ market[r] # "none"
    BY <2>1, Zenon DEF Listed, Orders
  <2>3. n \in Nat /\ n # 0
    <3>1. IsFiniteSet(DOMAIN OrderSeq)
      <4>1. DOMAIN OrderSeq = 1 .. Len(OrderSeq) /\ Len(OrderSeq) \in Nat
        BY BidEngineAssumption
      <4> QED BY <4>1, FS_Interval
    <3>2. Open \subseteq DOMAIN OrderSeq
      BY Zenon DEF Open, Listed
    <3>3. IsFiniteSet(Open)
      BY <3>1, <3>2, FS_Subset, Zenon
    <3> QED BY <1>8, <2>1, <3>3, FS_EmptySet, FS_CardinalityType, ZenonT(30)
  <2>4. x.order = r /\ x.bid /\ x.pos = 0 /\ Equipped(x, crowded)
    <3>1. IsNew(x, r, TRUE, pos)
      BY <2>1, NewFields, Zenon
    <3> QED BY <1>1, <3>1, Zenon DEF IsNew
  <2>5. \A k \in DOMAIN mon' : mon'[k] = x
    BY <1>8, <2>1, ZenonT(30)
  <2>6. orders' \in [Orders -> Nat] /\ orders'[r] = n
    <3>1. orders \in [Orders -> Nat]
      BY <1>1, Zenon DEF WorldOK
    <3> QED BY <1>8, <2>1, <2>2, <2>3, <3>1, SMTT(30)
  <2>7. WorldOK'
    <3>1. 0 <= Len(log)
      BY <1>1, Zenon DEF WorldOK
    <3>2. \A k \in DOMAIN mon' : mon'[k].pos <= Len(log)
      BY <2>4, <2>5, <3>1, Zenon
    <3> QED BY <1>1, <2>6, <3>2, Zenon DEF WorldOK
  <2>8. Started'
    BY <2>4, <2>5, Zenon DEF Started
  <2>9. OneAtATime'
    BY <2>3, <2>4, <2>5, <2>6, ZenonT(30) DEF OneAtATime
  <2>10. Recovered'
    <3>1. \A k \in DOMAIN log : ~(k <= 0)
      <4>1. ASSUME NEW S, NEW s \in Seq(S) PROVE \A k \in DOMAIN s : ~(k <= 0)
        OBVIOUS
      <4> QED BY <4>1, Zenon DEF MonInv
    <3>2. ASSUME NEW c \in DOMAIN log, log[c].type = "created", SameGroup(log[c].order, r, crowded)
          PROVE  \/ Over(r) \/ EndedBefore(r, c)
                 \/ log[c].order \notin bids /\ market[log[c].order] \notin {"none", "open"}
      <4>1. log[c].order \notin bids /\ market[log[c].order] # "none"
        BY <1>1, <1>2, <3>2, Zenon DEF LogOfBids, LogOfOrder
      <4>2. market[log[c].order] = "open" => Over(r) \/ EndedBefore(r, c)
        BY <1>1, <2>2, <3>2, Zenon DEF LogOfGroup
      <4> QED BY <4>1, <4>2, Zenon
    <3>3. \A k \in DOMAIN mon' : mon'[k].order = r /\ mon'[k].bid /\ mon'[k].pos = 0
      BY <2>4, <2>5, Zenon
    <3>4. \A k \in DOMAIN mon', c \in DOMAIN log' :
             mon'[k].bid /\ log'[c].type = "created" /\ SameGroup(log'[c].order, mon'[k].order, crowded') =>
                \/ Over(r)' \/ EndedBefore(r, c)'
                \/ log'[c].order \notin bids' /\ market'[log'[c].order] \notin {"none", "open"}
      BY <1>1, <3>2, <3>3, LogSame, ZenonT(30)
    <3>5. /\ \A k \in DOMAIN mon' : mon'[k].bid => market'[mon'[k].order] # "none"
          /\ \A k \in DOMAIN mon', j \in DOMAIN log' :
                /\ mon'[k].bid /\ mon'[k].at = "loop" /\ j <= mon'[k].pos
                /\ log'[j].order = mon'[k].order
                => log'[j].type = "created"
      BY <1>1, <2>2, <3>1, <3>3, ZenonT(30)
    <3> QED BY <3>3, <3>4, <3>5, Zenon DEF Recovered
  <2>11. \A k \in DOMAIN mon' : Equipped(mon'[k], crowded')
    BY <1>1, <2>4, <2>5, Zenon
  <2> QED BY <1>4, <1>5, <1>6, <2>7, <2>8, <2>9, <2>10, <2>11, ZenonT(30) DEF LeaseInv
<1> QED BY <1>7, <1>8, Zenon DEF Start

\* Every step keeps the invariant for leases.
LEMMA NextLease ==
    LeaseInv /\ BidInv /\ [Next]_vars => LeaseInv'
<1> SUFFICES ASSUME LeaseInv, BidInv, [Next]_vars PROVE LeaseInv'
  OBVIOUS
<1>0. MonInv
  BY Zenon DEF BidInv
<1>1. ASSUME NEW m \in DOMAIN mon, MonitorNext(m) PROVE LeaseInv'
  <2>1. TRUE \in BOOLEAN
    OBVIOUS
  <2> QED BY <1>0, <1>1, <2>1, ReturnLease, EventLease, ResultLease, DoneLease, ZenonT(30) DEF MonitorNext
<1> QED BY <1>0, <1>1, DoneLease, StartLease, TakeEventLease, MarketLease, OtherLease, ZenonT(30) DEF Next

\* For any orders and groups, however the events of the market, the calls of the monitors and
\* the restart of the service interleave: what order.run announces as a lease is one that it
\* has resources for, and it announces it once, but for the monitors that queryExistingOrders
\* recovers, and in groups that have had two open orders at a time.
THEOREM LeaseWonIsSound == Spec => []LeaseWonSound
<1>1. Spec => [](BidInv /\ LeaseInv)
  BY InitBidInv, NextBidInv, InitLease, NextLease, PTL DEF Spec
<1>2. BidInv /\ LeaseInv => LeaseWonSound
  <2> SUFFICES ASSUME BidInv, LeaseInv PROVE LeaseWonSound
    OBVIOUS
  <2>1. ASSUME NEW m \in DOMAIN mon, mon[m].won, ~mon[m].bid
        PROVE  (mon[m].group /\ inventory[mon[m].order] > 0) \/ GroupOf[mon[m].order] \in crowded
    <3> SUFFICES ASSUME GroupOf[mon[m].order] \notin crowded
                 PROVE  mon[m].group /\ inventory[mon[m].order] > 0
      OBVIOUS
    <3>1. mon[m].reservation /\ mon[m].group
      BY <2>1, Zenon DEF LeaseInv, Equipped
    <3>2. mon \in Seq(Monitors) /\ mon[m] \in Monitors
      BY Domains, Zenon DEF BidInv, MonInv
    <3>3. mon[m].order \in Orders /\ Holds(mon[m])
      BY <2>1, <3>1, <3>2, MonitorFields, HoldsFields, ZenonT(30)
    <3>4. Cardinality(Holders(mon, mon[m].order)) > 0
      BY <3>2, <3>3, HolderCounts, Zenon
    <3> QED BY <3>1, <3>3, <3>4, Zenon DEF BidInv
  <2>2. ASSUME NEW o \in Orders, announced[o] > 1
        PROVE  \/ \E m, n \in DOMAIN mon : m # n /\ mon[m].bid /\ mon[n].bid
               \/ \E m \in DOMAIN mon : mon[m].bid /\ Over(mon[m].order)
               \/ GroupOf[o] \in crowded
    BY <2>2, Zenon DEF LeaseInv, Announcements, Alone
  <2> QED BY <2>1, <2>2, Zenon DEF LeaseWonSound
<1> QED BY <1>1, <1>2, PTL

=============================================================================
