---------------------------- MODULE DaemonProofs ----------------------------
(***************************************************************************)
(* What holds of the manifest handler and of the provider's process around *)
(* it, for any number of leases, deployments, callers, events and calls of *)
(* Status.                                                                 *)
(*                                                                         *)
(* The first half is the handler's inductive invariant.  Its loops over    *)
(* leases are folds, so what a fold computes follows, by induction.  The   *)
(* induction theorems of the library take an operator, which the provers   *)
(* cannot instantiate; here the set of the numbers that have the property  *)
(* takes its place, and a function that of the step of a fold.             *)
(***************************************************************************)
EXTENDS Daemon, TLAPS

-----------------------------------------------------------------------------
(* The handler: its inductive invariant *)

\* The events the handler reads, and the types of its variables.
Won(l) == [type |-> "won", lease |-> l]
Closed(l) == [type |-> "closed", lease |-> l]
Over(d) == [type |-> "over", deployment |-> d]

HandlerEvents ==
    {Won(l) : l \in Leases} \cup {Closed(l) : l \in Leases} \cup {Over(d) : d \in Deployments}

HandlerTypes ==
    /\ svc \in {"starting", "running", "draining", "done", "failed", "panicked"}
    /\ events \in Seq(HandlerEvents)
    /\ managers \in SUBSET Deployments /\ over \in SUBSET Deployments
    /\ phase \in [Deployments -> {"none", "loop", "leaving"}]
    /\ held \in [Deployments -> Seq(Leases)]
    /\ chain \in [Leases -> {"none", "active", "closed"}]
    /\ announced \in SUBSET Leases
    /\ twice \in BOOLEAN

\* A manager is known as long as it is there, and none is before the handler runs.
Managed ==
    /\ \A d \in Deployments :
        (d \in managers <=> phase[d] # "none") /\ (phase[d] = "none" => held[d] = << >>)
    /\ svc = "starting" => ~twice /\ \A d \in Deployments : phase[d] = "none"

\* No lease is in the slice twice.
Distinct(ls) == \A i, j \in DOMAIN ls : ls[i] = ls[j] => i = j

\* A manager holds leases of its deployment that exist, each of them once.
Belong ==
    ~twice => \A d \in Deployments :
        Distinct(held[d]) /\ \A l \in Range(held[d]) : DeploymentOf[l] = d /\ chain[l] # "none"

\* An event tells what has happened, and a lease that is over was announced unless HoldsActive
\* leaves it out.
Pending(e) == \E i \in DOMAIN events : events[i] = e

Told ==
    /\ \A l \in Leases :
        /\ Pending(Won(l)) => l \in announced
        /\ Pending(Closed(l)) => chain[l] = "closed"
        /\ l \in announced => chain[l] # "none"
        /\ chain[l] = "closed" => l \in announced \cup late
        /\ DeploymentOf[l] \in over => chain[l] # "active"
    /\ \A d \in Deployments : Pending(Over(d)) => d \in over

\* The events of a lease and of its deployment lie in the order in which they happen.
Ordered ==
    svc \in {"starting", "running"} =>
        /\ \A l \in Leases \ late, i \in DOMAIN events :
               events[i] = Won(l) /\ chain[l] = "closed" => \E j \in DOMAIN events : i < j /\ events[j] = Closed(l)
        /\ \A l \in Leases, i, j \in DOMAIN events :
               events[i] = Over(DeploymentOf[l]) /\ events[j] = Closed(l) => j < i

\* A manager leaves a running handler because its deployment is over, and then holds none of
\* the leases HoldsActive speaks about.
Leaving ==
    svc = "running" => \A d \in Deployments : phase[d] = "leaving" =>
        d \in over /\ (~twice => Range(held[d]) \subseteq late)

\* HoldsActive in terms of the events that are pending.
Holds ==
    svc = "running" /\ ~twice =>
        \A l \in Leases \ late :
            /\ chain[l] = "active" /\ l \in announced /\ ~Pending(Won(l)) => l \in Range(held[DeploymentOf[l]])
            /\ l \in Range(held[DeploymentOf[l]]) /\ chain[l] = "closed" => Pending(Closed(l))

\* The inductive invariant of the handler.
HandlerInv ==
    HandlerTypes /\ Managed /\ Belong /\ Told /\ Ordered /\ Leaving /\ Holds /\ PanicsOnlyIfTwice

-----------------------------------------------------------------------------
(* What the two loops over leases achieve; both facts are shown below *)

\* What the loop of the case rmleasech works on.
Slices(ls) == [arr : [1 .. Len(ls) -> Leases], len : 0 .. Len(ls), ok : BOOLEAN]

\* The loop leaves a part of the array and, of a slice that has no lease twice, all but the
\* lease.
Removes(ls, l) ==
    LET r == removeLease(ls, l)
        new == SubSeq(r.arr, 1, r.len)
    IN  /\ r \in Slices(ls)
        /\ Distinct(ls) => r.ok /\ Distinct(new) /\ Range(new) = Range(ls) \ {l}

\* The states of the managers.
HandlerStates ==
    [managers : SUBSET Deployments, phase : [Deployments -> {"none", "loop", "leaving"}],
     held : [Deployments -> Seq(Leases)], twice : BOOLEAN]

\* The handler has given out the leases S: each is with the manager of its deployment, once.
GivenOut(x, S) ==
    /\ x \in HandlerStates /\ ~x.twice
    /\ \A d \in Deployments :
        /\ d \in x.managers <=> x.phase[d] # "none"
        /\ x.phase[d] # "leaving"
        /\ x.phase[d] = "none" => x.held[d] = << >>
        /\ Distinct(x.held[d]) /\ Range(x.held[d]) = {l \in S : DeploymentOf[l] = d}

\* The leases of the start, each listed once, are with their managers afterwards.
HandsOut(ls) == \A x \in HandlerStates : GivenOut(x, {}) => GivenOut(handleLeases(x, ls), Range(ls))

-----------------------------------------------------------------------------
(* A lease is given to its manager *)

\* The leases a new lease is appended to.
Before(x, d) == IF x.phase[d] = "none" THEN << >> ELSE x.held[d]

\* A manager that is leaving changes nothing; any other, made if need be, has the lease as
\* its last one.
LEMMA HandleLease ==
    ASSUME NEW x \in HandlerStates, NEW l \in Leases,
           DeploymentOf[l] \in x.managers <=> x.phase[DeploymentOf[l]] # "none"
    PROVE  LET d == DeploymentOf[l]
               z == handleLease(x, l)
           IN  /\ z \in HandlerStates
               /\ x.phase[d] = "leaving" => z = x
               /\ x.phase[d] # "leaving" =>
                    /\ z.managers = x.managers \cup {d} /\ z.phase = [x.phase EXCEPT ![d] = "loop"]
                    /\ z.held = [x.held EXCEPT ![d] = Append(Before(x, d), l)]
                    /\ z.twice <=> (x.twice \/ l \in Range(Before(x, d)))
<1> DEFINE d == DeploymentOf[l]
           y == ensureManager(x, d)
           z == handleLease(x, l)
           zz == [managers |-> y.managers, phase |-> y.phase,
                  held |-> [y.held EXCEPT ![d] = Append(@, l)], twice |-> y.twice \/ l \in Range(y.held[d])]
<1>1. d \in Deployments
  BY ManifestHandlerAssumption
<1>2. z = IF y.phase[d] # "loop" THEN y ELSE zz
  BY Zenon DEF handleLease
<1>3. x.managers \in SUBSET Deployments /\ x.phase \in [Deployments -> {"none", "loop", "leaving"}]
      /\ x.held \in [Deployments -> Seq(Leases)] /\ x.twice \in BOOLEAN
  BY DEF HandlerStates
<1> DEFINE old == Before(x, d)
           tw == x.twice \/ l \in Range(old)
           hd == [x.held EXCEPT ![d] = Append(old, l)]
           ph == [x.phase EXCEPT ![d] = "loop"]
           new == [managers |-> x.managers \cup {d}, phase |-> ph, held |-> hd, twice |-> tw]
<1>4. CASE x.phase[d] = "leaving"
  <2>1. y = x
    BY <1>4 DEF ensureManager
  <2> QED BY <1>2, <1>4, <2>1
<1>5. ASSUME x.phase[d] # "leaving" PROVE z = new
  <2>1. CASE x.phase[d] = "loop"
    <3>1. y = x /\ old = x.held[d]
      BY <2>1 DEF ensureManager, Before
    <3>2. x.managers \cup {d} = x.managers /\ ph = x.phase
      BY <1>1, <1>3, <2>1, Zenon
    <3>3. z = zz
      BY <1>2, <2>1, <3>1, Zenon
    <3> HIDE DEF old, y, ph, z
    <3> QED BY <3>1, <3>2, <3>3, Zenon
  <2>2. CASE x.phase[d] = "none"
    <3>1. y = [managers |-> x.managers \cup {d}, phase |-> ph,
               held |-> [x.held EXCEPT ![d] = << >>], twice |-> x.twice] /\ old = << >>
      BY <2>2 DEF ensureManager, Before
    <3>2. y.phase[d] = "loop" /\ y.held[d] = old
      BY <1>1, <1>3, <3>1
    <3>3. z = zz
      BY <1>2, <3>2, Zenon
    <3>4. [y.held EXCEPT ![d] = Append(@, l)] = hd
      BY <1>1, <1>3, <3>1
    <3>5. y.managers = x.managers \cup {d} /\ y.phase = ph /\ y.twice = x.twice
      BY <3>1
    <3> HIDE DEF old, y, ph, z, hd
    <3> QED BY <3>2, <3>3, <3>4, <3>5, Zenon
  <2>3. x.phase[d] \in {"none", "loop", "leaving"}
    BY <1>1, <1>3
  <2> QED BY <1>5, <2>1, <2>2, <2>3, Zenon
<1>6. hd \in [Deployments -> Seq(Leases)] /\ ph \in [Deployments -> {"none", "loop", "leaving"}]
      /\ x.managers \cup {d} \in SUBSET Deployments /\ tw \in BOOLEAN
  <2>1. old \in Seq(Leases)
    BY <1>1, <1>3 DEF Before
  <2>2. Append(old, l) \in Seq(Leases)
    BY <2>1
  <2>3. hd \in [Deployments -> Seq(Leases)]
    BY <1>1, <1>3, <2>2
  <2>4. ph \in [Deployments -> {"none", "loop", "leaving"}] /\ x.managers \cup {d} \in SUBSET Deployments
    BY <1>1, <1>3
  <2>5. tw \in BOOLEAN
    BY Zenon
  <2> QED BY <2>3, <2>4, <2>5
<1>7. CASE x.phase[d] # "leaving"
  <2> HIDE DEF tw, hd, ph, z, d, old
  <2>1. z = new
    BY <1>5, <1>7, Zenon
  <2>2. z \in HandlerStates /\ z.managers = x.managers \cup {d} /\ z.phase = ph /\ z.held = hd /\ z.twice = tw
    BY <1>6, <2>1 DEF HandlerStates
  <2> QED BY <1>7, <2>2, Zenon DEF tw, hd, ph, z, d, old
<1> QED BY <1>4, <1>7, Zenon

\* Appending a lease that is not there yet.
LEMMA AppendNew ==
    ASSUME NEW ls \in Seq(Leases), NEW l \in Leases
    PROVE  /\ Append(ls, l) \in Seq(Leases)
           /\ Range(Append(ls, l)) = Range(ls) \cup {l}
           /\ Distinct(ls) /\ l \notin Range(ls) => Distinct(Append(ls, l))
<1> DEFINE n == Len(ls)
           new == Append(ls, l)
<1>1. n \in Nat /\ DOMAIN ls = 1 .. n /\ DOMAIN new = 1 .. n + 1 /\ new \in Seq(Leases)
      /\ new[n + 1] = l /\ \A i \in 1 .. n : new[i] = ls[i]
  OBVIOUS
<1>2. \A i \in 1 .. n + 1 : i \in 1 .. n \/ i = n + 1
  BY <1>1
<1>3. \A i \in 1 .. n : i \in 1 .. n + 1
  BY <1>1
<1>4. n + 1 \in 1 .. n + 1
  BY <1>1
<1> HIDE DEF n, new
<1>5. Range(new) = Range(ls) \cup {l}
  BY <1>1, <1>2, <1>3, <1>4, Zenon DEF Range
<1>6. ASSUME Distinct(ls), l \notin Range(ls) PROVE Distinct(new)
  BY <1>1, <1>2, <1>6, Zenon DEF Range, Distinct
<1> QED BY <1>1, <1>5, <1>6 DEF new

-----------------------------------------------------------------------------
(* The queue of the handler *)

\* Events of different kinds, leases or deployments are different.
LEMMA EventsDiffer ==
    ASSUME NEW x, NEW y
    PROVE  /\ (Won(x) = Won(y) \/ Closed(x) = Closed(y) \/ Over(x) = Over(y)) => x = y
           /\ Won(x) # Closed(y) /\ Won(x) # Over(y) /\ Closed(x) # Over(y)
<1>1. Won(x) = Won(y) => x = y
  <2>1. Won(x).lease = x /\ Won(y).lease = y
    BY DEF Won
  <2> QED BY <2>1, Zenon
<1>2. Closed(x) = Closed(y) => x = y
  <2>1. Closed(x).lease = x /\ Closed(y).lease = y
    BY DEF Closed
  <2> QED BY <2>1, Zenon
<1>3. Over(x) = Over(y) => x = y
  <2>1. Over(x).deployment = x /\ Over(y).deployment = y
    BY DEF Over
  <2> QED BY <2>1, Zenon
<1>4. Won(x).type = "won" /\ Closed(x).type = "closed" /\ Closed(y).type = "closed" /\ Over(y).type = "over"
  BY DEF Won, Closed, Over
<1> QED BY <1>1, <1>2, <1>3, <1>4

\* An event is of one of the three kinds.
LEMMA EventKinds ==
    ASSUME NEW e \in HandlerEvents
    PROVE  /\ e.type = "won" => e.lease \in Leases /\ e = Won(e.lease)
           /\ e.type = "closed" => e.lease \in Leases /\ e = Closed(e.lease)
           /\ e.type = "over" => e.deployment \in Deployments /\ e = Over(e.deployment)
<1>1. CASE \E l \in Leases : e = Won(l)
  BY <1>1 DEF Won
<1>2. CASE \E l \in Leases : e = Closed(l)
  BY <1>2 DEF Closed
<1>3. CASE \E d \in Deployments : e = Over(d)
  BY <1>3 DEF Over
<1> QED BY <1>1, <1>2, <1>3 DEF HandlerEvents

\* The event that is published comes last in the queue, if the handler is subscribed.
Added(e) ==
    /\ events' \in Seq(HandlerEvents)
    /\ \A i \in DOMAIN events : i \in DOMAIN events' /\ events'[i] = events[i]
    /\ \A i \in DOMAIN events' : i \in DOMAIN events \/ (events'[i] = e /\ \A j \in DOMAIN events : j < i)
    /\ svc \in {"starting", "running"} =>
           \E i \in DOMAIN events' : events'[i] = e /\ \A j \in DOMAIN events : j < i

\* Publish does so.
LEMMA PublishAdds ==
    ASSUME HandlerTypes, NEW e \in HandlerEvents, Publish(e)
    PROVE  Added(e)
<1> DEFINE n == Len(events)
<1>1. events \in Seq(HandlerEvents) /\ n \in Nat /\ DOMAIN events = 1 .. n
  BY DEF HandlerTypes
<1>2. CASE svc \in {"starting", "running"}
  <2>1. events' = Append(events, e)
    BY <1>2 DEF Publish
  <2>2. events' \in Seq(HandlerEvents) /\ DOMAIN events' = 1 .. n + 1 /\ events'[n + 1] = e
        /\ \A i \in 1 .. n : events'[i] = events[i]
    BY <1>1, <2>1
  <2>3. n + 1 \in 1 .. n + 1 /\ \A j \in 1 .. n : j < n + 1 /\ j \in 1 .. n + 1
    BY <1>1
  <2>4. \A i \in 1 .. n + 1 : i \in 1 .. n \/ i = n + 1
    BY <1>1
  <2> HIDE DEF n
  <2> QED BY <1>1, <2>2, <2>3, <2>4, Zenon DEF Added
<1>3. CASE svc \notin {"starting", "running"}
  <2>1. events' = events
    BY <1>3 DEF Publish
  <2> QED BY <1>1, <1>3, <2>1 DEF Added
<1> QED BY <1>2, <1>3

\* Nothing else becomes pending.
LEMMA AddedPending ==
    ASSUME NEW e, Added(e), NEW x
    PROVE  /\ Pending(x) => Pending(x)'
           /\ Pending(x)' => Pending(x) \/ x = e
           /\ svc \in {"starting", "running"} => Pending(e)'
BY Zenon DEF Added, Pending

\* The handler takes the first event.
LEMMA TakesFirst ==
    ASSUME HandlerTypes, NEW type, Reads(type), events' = Tail(events)
    PROVE  /\ events' \in Seq(HandlerEvents) /\ Head(events) \in HandlerEvents /\ Head(events).type = type
           /\ 1 \in DOMAIN events /\ events[1] = Head(events)
           /\ \A x : (Pending(x)' => Pending(x)) /\ (Pending(x) /\ x # Head(events) => Pending(x)')
<1> DEFINE n == Len(events)
<1>1. events \in Seq(HandlerEvents) /\ events # << >> /\ Head(events).type = type
  BY DEF HandlerTypes, Reads
<1>2. n \in Nat /\ n >= 1 /\ DOMAIN events = 1 .. n /\ Head(events) = events[1]
      /\ events' \in Seq(HandlerEvents) /\ DOMAIN events' = 1 .. n - 1
      /\ \A i \in 1 .. n - 1 : events'[i] = events[i + 1]
  BY <1>1
<1>3. 1 \in DOMAIN events /\ events[1] \in HandlerEvents
  BY <1>1, <1>2
<1> HIDE DEF n
<1>4. ASSUME NEW x, Pending(x)' PROVE Pending(x)
  <2>1. PICK i \in 1 .. n - 1 : events'[i] = x
    BY <1>2, <1>4 DEF Pending
  <2>2. i + 1 \in 1 .. n /\ events[i + 1] = x
    BY <1>2, <2>1
  <2> QED BY <1>2, <2>2, Zenon DEF Pending
<1>5. ASSUME NEW x, Pending(x), x # events[1] PROVE Pending(x)'
  <2>1. PICK i \in 1 .. n : events[i] = x
    BY <1>2, <1>5 DEF Pending
  <2>2. i # 1
    BY <1>5, <2>1
  <2>3. i - 1 \in 1 .. n - 1 /\ (i - 1) + 1 = i
    BY <1>2, <2>2
  <2>4. events'[i - 1] = x
    BY <1>2, <2>1, <2>3
  <2> QED BY <1>2, <2>3, <2>4, Zenon DEF Pending
<1> QED BY <1>1, <1>2, <1>3, <1>4, <1>5

\* What is left in the queue keeps its order.
LEMMA TakesInOrder ==
    ASSUME HandlerTypes, Ordered, NEW type, Reads(type), events' = Tail(events), chain' = chain, late' = late
    PROVE  Ordered'
<1> DEFINE n == Len(events)
<1>1. events \in Seq(HandlerEvents) /\ events # << >> /\ svc = "running"
  BY DEF HandlerTypes, Reads
<1>2. n \in Nat /\ n >= 1 /\ DOMAIN events = 1 .. n
      /\ DOMAIN events' = 1 .. n - 1 /\ \A i \in 1 .. n - 1 : events'[i] = events[i + 1]
  BY <1>1
<1> HIDE DEF n
<1>3. ASSUME NEW l \in Leases \ late, NEW i \in 1 .. n - 1, events'[i] = Won(l), chain[l] = "closed"
      PROVE  \E j \in 1 .. n - 1 : i < j /\ events'[j] = Closed(l)
  <2>1. i + 1 \in 1 .. n /\ events[i + 1] = Won(l)
    BY <1>2, <1>3
  <2>2. PICK j \in 1 .. n : i + 1 < j /\ events[j] = Closed(l)
    BY <1>1, <1>2, <1>3, <2>1 DEF Ordered
  <2>3. j - 1 \in 1 .. n - 1 /\ i < j - 1 /\ (j - 1) + 1 = j
    BY <1>2, <2>1, <2>2
  <2>4. events'[j - 1] = Closed(l)
    BY <1>2, <2>2, <2>3
  <2> QED BY <2>3, <2>4, Zenon
<1>4. ASSUME NEW l \in Leases, NEW i \in 1 .. n - 1, NEW j \in 1 .. n - 1,
             events'[i] = Over(DeploymentOf[l]), events'[j] = Closed(l)
      PROVE  j < i
  <2>1. i + 1 \in 1 .. n /\ events[i + 1] = Over(DeploymentOf[l]) /\ j + 1 \in 1 .. n /\ events[j + 1] = Closed(l)
    BY <1>2, <1>4
  <2>2. j + 1 < i + 1
    BY <1>1, <1>2, <2>1 DEF Ordered
  <2> QED BY <1>2, <2>2
<1>5. \A l \in Leases \ late', i \in DOMAIN events' :
          events'[i] = Won(l) /\ chain'[l] = "closed" => \E j \in DOMAIN events' : i < j /\ events'[j] = Closed(l)
  BY <1>2, <1>3, ZenonT(30)
<1>6. \A l \in Leases, i, j \in DOMAIN events' :
          events'[i] = Over(DeploymentOf[l]) /\ events'[j] = Closed(l) => j < i
  BY <1>2, <1>4
<1> QED BY <1>5, <1>6 DEF Ordered

-----------------------------------------------------------------------------
(* The invariant is kept *)

\* It holds before the handler starts: the queue is empty and there are no managers.
LEMMA HandlerInvInit == Init => HandlerInv
<1> SUFFICES ASSUME Init PROVE HandlerInv
  OBVIOUS
<1>1. HandlerTypes
  <2>1. events \in Seq(HandlerEvents) /\ held \in [Deployments -> Seq(Leases)]
    BY DEF Init
  <2>2. chain \in [Leases -> {"none", "active", "closed"}] /\ announced \in SUBSET Leases
    BY DEF Init
  <2>3. phase \in [Deployments -> {"none", "loop", "leaving"}]
    BY DEF Init
  <2> QED BY <2>1, <2>2, <2>3, Zenon DEF Init, HandlerTypes
<1>2. \A x : ~Pending(x)
  BY DEF Init, Pending
<1>3. DOMAIN events = {}
  BY DEF Init
<1>4. Managed /\ Leaving /\ Holds /\ PanicsOnlyIfTwice
  BY DEF Init, Managed, Leaving, Holds, PanicsOnlyIfTwice
<1>5. Belong
  BY DEF Init, Belong, Range, Distinct
<1>6. Told
  BY <1>2 DEF Init, Told
<1>7. Ordered
  BY <1>3, Zenon DEF Ordered
<1> QED BY <1>1, <1>4, <1>5, <1>6, <1>7 DEF HandlerInv

\* While the handler does nothing, leases come into being and more is excepted or over.
LEMMA HandlerIdle ==
    ASSUME HandlerInv, UNCHANGED <<svc, managers, phase, held, twice>>,
           late \subseteq late', over \subseteq over', \A l \in Leases : chain[l] # "none" => chain'[l] # "none"
    PROVE  Managed' /\ Belong' /\ Leaving' /\ PanicsOnlyIfTwice'
<1>1. Managed'
  BY DEF HandlerInv, Managed
<1>2. Belong'
  <2>1. \A d \in Deployments : \A l \in Range(held[d]) : l \in Leases
    BY DEF HandlerInv, HandlerTypes, Range
  <2> QED BY <2>1, Zenon DEF HandlerInv, Belong
<1>3. Leaving'
  BY Zenon DEF HandlerInv, Leaving
<1>4. PanicsOnlyIfTwice'
  BY DEF HandlerInv, PanicsOnlyIfTwice
<1> QED BY <1>1, <1>2, <1>3, <1>4

\* A new lease is in nobody's slice and in no event.
LEMMA LeaseCreatedKeeps ==
    ASSUME HandlerInv, NEW l \in Leases, LeaseCreated(l)
    PROVE  HandlerInv'
<1>1. /\ chain[l] = "none" /\ DeploymentOf[l] \notin over /\ chain' = [chain EXCEPT ![l] = "active"]
      /\ UNCHANGED <<svc, events, managers, phase, held, announced, over, twice, late>>
  BY DEF LeaseCreated
<1>2. HandlerTypes /\ chain \in [Leases -> {"none", "active", "closed"}]
  BY DEF HandlerInv, HandlerTypes
<1>3. HandlerTypes'
  BY <1>1, <1>2 DEF HandlerTypes
<1>4. chain'[l] = "active" /\ \A m \in Leases : m # l => chain'[m] = chain[m]
  BY <1>1, <1>2
<1>5. \A x : Pending(x)' <=> Pending(x)
  BY <1>1 DEF Pending
<1>6. \A m \in Leases : (chain[m] # "none" => chain'[m] # "none") /\ (chain'[m] = "closed" <=> chain[m] = "closed")
  BY <1>1, <1>4
<1>7. Managed' /\ Belong' /\ Leaving' /\ PanicsOnlyIfTwice'
  <2>1. UNCHANGED <<svc, managers, phase, held, twice>> /\ late \subseteq late' /\ over \subseteq over'
    BY <1>1
  <2> QED BY <1>6, <2>1, HandlerIdle, Zenon
<1>8. l \notin announced
  BY <1>1 DEF HandlerInv, Told
<1>9. Told'
  <2> SUFFICES ASSUME NEW m \in Leases
               PROVE  /\ Pending(Won(m)) => m \in announced
                      /\ Pending(Closed(m)) => chain'[m] = "closed"
                      /\ m \in announced => chain'[m] # "none"
                      /\ chain'[m] = "closed" => m \in announced \cup late
                      /\ DeploymentOf[m] \in over => chain'[m] # "active"
    <3>1. \A d \in Deployments : Pending(Over(d)) => d \in over
      BY DEF HandlerInv, Told
    <3> QED BY <1>1, <1>5, <3>1, Zenon DEF Told
  <2>1. /\ Pending(Won(m)) => m \in announced
        /\ Pending(Closed(m)) => chain[m] = "closed"
        /\ m \in announced => chain[m] # "none"
        /\ chain[m] = "closed" => m \in announced \cup late
        /\ DeploymentOf[m] \in over => chain[m] # "active"
    BY DEF HandlerInv, Told
  <2> QED BY <1>1, <1>4, <1>6, <2>1, Zenon
<1>10. Ordered'
  BY <1>1, <1>6, ZenonT(30) DEF HandlerInv, Ordered
<1>11. Holds'
  <2> SUFFICES ASSUME svc = "running", ~twice, NEW m \in Leases \ late
               PROVE  /\ chain'[m] = "active" /\ m \in announced /\ ~Pending(Won(m)) => m \in Range(held[DeploymentOf[m]])
                      /\ m \in Range(held[DeploymentOf[m]]) /\ chain'[m] = "closed" => Pending(Closed(m))
    BY <1>1, <1>5, Zenon DEF Holds
  <2>1. /\ chain[m] = "active" /\ m \in announced /\ ~Pending(Won(m)) => m \in Range(held[DeploymentOf[m]])
        /\ m \in Range(held[DeploymentOf[m]]) /\ chain[m] = "closed" => Pending(Closed(m))
    BY Zenon DEF HandlerInv, Holds
  <2> QED BY <1>4, <1>6, <1>8, <2>1, Zenon
<1> QED BY <1>3, <1>7, <1>9, <1>10, <1>11 DEF HandlerInv

\* The event of a lease that is announced when it is over comes after its end; such a lease
\* is late.
LEMMA LeaseWonKeeps ==
    ASSUME HandlerInv, NEW l \in Leases, LeaseWon(l)
    PROVE  HandlerInv'
<1>1. /\ chain[l] # "none" /\ l \notin announced /\ announced' = announced \cup {l} /\ Publish(Won(l))
      /\ UNCHANGED <<svc, managers, phase, held, chain, over, twice, late>>
  BY DEF LeaseWon, Won
<1>2. HandlerTypes
  BY DEF HandlerInv
<1>3. Added(Won(l))
  BY <1>1, <1>2, PublishAdds, Zenon DEF HandlerEvents
<1>4. HandlerTypes'
  BY <1>1, <1>2, <1>3 DEF HandlerTypes, Added
<1>5. ASSUME NEW x PROVE (Pending(x) => Pending(x)') /\ (Pending(x)' => Pending(x) \/ x = Won(l))
  BY <1>3, AddedPending, Zenon
<1>6. svc \in {"starting", "running"} => Pending(Won(l))'
  BY <1>3, AddedPending, Zenon
<1>7. Managed' /\ Belong' /\ Leaving' /\ PanicsOnlyIfTwice'
  <2>1. UNCHANGED <<svc, managers, phase, held, twice>> /\ late \subseteq late' /\ over \subseteq over'
        /\ \A m \in Leases : chain[m] # "none" => chain'[m] # "none"
    BY <1>1
  <2> QED BY <2>1, HandlerIdle, Zenon
<1>8. Told'
  <2>1. ASSUME NEW m \in Leases
        PROVE  /\ Pending(Won(m))' => m \in announced'
               /\ Pending(Closed(m))' => chain[m] = "closed"
               /\ m \in announced' => chain[m] # "none"
               /\ chain[m] = "closed" => m \in announced' \cup late
               /\ DeploymentOf[m] \in over => chain[m] # "active"
    <3>1. /\ Pending(Won(m)) => m \in announced
          /\ Pending(Closed(m)) => chain[m] = "closed"
          /\ m \in announced => chain[m] # "none"
          /\ chain[m] = "closed" => m \in announced \cup late
          /\ DeploymentOf[m] \in over => chain[m] # "active"
      BY DEF HandlerInv, Told
    <3>2. (Won(m) = Won(l) => m = l) /\ Closed(m) # Won(l)
      BY EventsDiffer, Zenon
    <3>3. Pending(Won(m))' => Pending(Won(m)) \/ m = l
      BY <1>5, <3>2, Zenon
    <3>4. Pending(Closed(m))' => Pending(Closed(m))
      BY <1>5, <3>2, Zenon
    <3>5. m \in announced' <=> m \in announced \/ m = l
      BY <1>1, Zenon
    <3>6. chain[l] # "none"
      BY <1>1
    <3>7. m \in announced' => chain[m] # "none"
      BY <3>1, <3>5, <3>6, Zenon
    <3> QED BY <3>1, <3>3, <3>4, <3>5, <3>7, Zenon
  <2>2. ASSUME NEW d \in Deployments, Pending(Over(d))' PROVE d \in over
    <3>1. Over(d) # Won(l)
      BY EventsDiffer, Zenon
    <3>2. Pending(Over(d))
      BY <1>5, <2>2, <3>1, Zenon
    <3> QED BY <3>2 DEF HandlerInv, Told
  <2> QED BY <1>1, <2>1, <2>2, Zenon DEF Told
<1>9. Ordered'
  <2> SUFFICES ASSUME svc \in {"starting", "running"}
               PROVE  /\ \A m \in Leases \ late, i \in DOMAIN events' : events'[i] = Won(m) /\ chain[m] = "closed"
                             => \E j \in DOMAIN events' : i < j /\ events'[j] = Closed(m)
                      /\ \A m \in Leases, i, j \in DOMAIN events' :
                             events'[i] = Over(DeploymentOf[m]) /\ events'[j] = Closed(m) => j < i
    BY <1>1, Zenon DEF Ordered
  <2>1. ASSUME NEW m \in Leases \ late, NEW i \in DOMAIN events', events'[i] = Won(m), chain[m] = "closed"
        PROVE  \E j \in DOMAIN events' : i < j /\ events'[j] = Closed(m)
    <3>1. chain[m] = "closed" => m \in announced \cup late
      BY DEF HandlerInv, Told
    <3>2. m # l
      BY <1>1, <2>1, <3>1
    <3>3. Won(m) # Won(l)
      BY <3>2, EventsDiffer, Zenon
    <3>4. i \in DOMAIN events /\ events[i] = Won(m)
      BY <1>3, <2>1, <3>3, Zenon DEF Added
    <3>5. PICK j \in DOMAIN events : i < j /\ events[j] = Closed(m)
      BY <2>1, <3>4, Zenon DEF HandlerInv, Ordered
    <3> QED BY <1>3, <3>5, Zenon DEF Added
  <2>2. ASSUME NEW m \in Leases, NEW i \in DOMAIN events', NEW j \in DOMAIN events',
               events'[i] = Over(DeploymentOf[m]), events'[j] = Closed(m)
        PROVE  j < i
    <3>1. Over(DeploymentOf[m]) # Won(l) /\ Closed(m) # Won(l)
      BY EventsDiffer, Zenon
    <3>2. i \in DOMAIN events /\ events[i] = Over(DeploymentOf[m]) /\ j \in DOMAIN events /\ events[j] = Closed(m)
      BY <1>3, <2>2, <3>1, Zenon DEF Added
    <3> QED BY <3>2, Zenon DEF HandlerInv, Ordered
  <2> QED BY <2>1, <2>2, Zenon
<1>10. Holds'
  <2> SUFFICES ASSUME svc = "running", ~twice, NEW m \in Leases \ late
               PROVE  /\ chain[m] = "active" /\ m \in announced' /\ ~Pending(Won(m))' => m \in Range(held[DeploymentOf[m]])
                      /\ m \in Range(held[DeploymentOf[m]]) /\ chain[m] = "closed" => Pending(Closed(m))'
    BY <1>1, Zenon DEF Holds
  <2>1. /\ chain[m] = "active" /\ m \in announced /\ ~Pending(Won(m)) => m \in Range(held[DeploymentOf[m]])
        /\ m \in Range(held[DeploymentOf[m]]) /\ chain[m] = "closed" => Pending(Closed(m))
    BY Zenon DEF HandlerInv, Holds
  <2>2. Pending(Won(m)) => Pending(Won(m))'
    BY <1>5, Zenon
  <2>3. Pending(Closed(m)) => Pending(Closed(m))'
    BY <1>5, Zenon
  <2>4. Pending(Won(l))'
    BY <1>6, Zenon
  <2> QED BY <1>1, <2>1, <2>2, <2>3, <2>4, Zenon
<1> QED BY <1>4, <1>7, <1>8, <1>9, <1>10 DEF HandlerInv

\* A lease that closes has its event pending behind the one that announced it.
LEMMA LeaseClosedKeeps ==
    ASSUME HandlerInv, NEW l \in Leases, LeaseClosed(l)
    PROVE  HandlerInv'
<1>1. /\ chain[l] = "active" /\ chain' = [chain EXCEPT ![l] = "closed"] /\ Publish(Closed(l))
      /\ late' = (IF l \in announced THEN late ELSE late \cup {l})
      /\ UNCHANGED <<svc, managers, phase, held, announced, over, twice>>
  BY DEF LeaseClosed, Closed
<1>2. HandlerTypes /\ chain \in [Leases -> {"none", "active", "closed"}]
  BY DEF HandlerInv, HandlerTypes
<1>3. Added(Closed(l))
  BY <1>1, <1>2, PublishAdds, Zenon DEF HandlerEvents
<1>4. HandlerTypes'
  BY <1>1, <1>2, <1>3 DEF HandlerTypes, Added
<1>5. ASSUME NEW x PROVE (Pending(x) => Pending(x)') /\ (Pending(x)' => Pending(x) \/ x = Closed(l))
  BY <1>3, AddedPending, Zenon
<1>6. svc \in {"starting", "running"} => Pending(Closed(l))'
  BY <1>3, AddedPending, Zenon
<1>7. chain'[l] = "closed" /\ \A m \in Leases : m # l => chain'[m] = chain[m]
  BY <1>1, <1>2
<1>8. late \subseteq late' /\ l \in announced \cup late'
  BY <1>1
<1>9. Managed' /\ Belong' /\ Leaving' /\ PanicsOnlyIfTwice'
  <2>1. UNCHANGED <<svc, managers, phase, held, twice>> /\ over \subseteq over'
        /\ \A m \in Leases : chain[m] # "none" => chain'[m] # "none"
    BY <1>1, <1>7
  <2> QED BY <1>8, <2>1, HandlerIdle, Zenon
<1>10. Told'
  <2>1. ASSUME NEW m \in Leases
        PROVE  /\ Pending(Won(m))' => m \in announced
               /\ Pending(Closed(m))' => chain'[m] = "closed"
               /\ m \in announced => chain'[m] # "none"
               /\ chain'[m] = "closed" => m \in announced \cup late'
               /\ DeploymentOf[m] \in over => chain'[m] # "active"
    <3>1. /\ Pending(Won(m)) => m \in announced
          /\ Pending(Closed(m)) => chain[m] = "closed"
          /\ m \in announced => chain[m] # "none"
          /\ chain[m] = "closed" => m \in announced \cup late
          /\ DeploymentOf[m] \in over => chain[m] # "active"
      BY DEF HandlerInv, Told
    <3>2. (Closed(m) = Closed(l) => m = l) /\ Won(m) # Closed(l)
      BY EventsDiffer, Zenon
    <3>3. Pending(Won(m))' => Pending(Won(m))
      BY <1>5, <3>2, Zenon
    <3>4. Pending(Closed(m))' => Pending(Closed(m)) \/ m = l
      BY <1>5, <3>2, Zenon
    <3>5. CASE m = l
      BY <1>7, <1>8, <3>1, <3>3, <3>5
    <3>6. CASE m # l
      BY <1>7, <1>8, <3>1, <3>3, <3>4, <3>6
    <3> QED BY <3>5, <3>6
  <2>2. ASSUME NEW d \in Deployments, Pending(Over(d))' PROVE d \in over
    <3>1. Over(d) # Closed(l)
      BY EventsDiffer, Zenon
    <3>2. Pending(Over(d))
      BY <1>5, <2>2, <3>1, Zenon
    <3> QED BY <3>2 DEF HandlerInv, Told
  <2> QED BY <1>1, <2>1, <2>2, Zenon DEF Told
<1>11. Ordered'
  <2> SUFFICES ASSUME svc \in {"starting", "running"}
               PROVE  /\ \A m \in Leases \ late', i \in DOMAIN events' : events'[i] = Won(m) /\ chain'[m] = "closed"
                             => \E j \in DOMAIN events' : i < j /\ events'[j] = Closed(m)
                      /\ \A m \in Leases, i, j \in DOMAIN events' :
                             events'[i] = Over(DeploymentOf[m]) /\ events'[j] = Closed(m) => j < i
    BY <1>1, Zenon DEF Ordered
  <2>1. ASSUME NEW m \in Leases \ late', NEW i \in DOMAIN events', events'[i] = Won(m), chain'[m] = "closed"
        PROVE  \E j \in DOMAIN events' : i < j /\ events'[j] = Closed(m)
    <3>1. Won(m) # Closed(l)
      BY EventsDiffer, Zenon
    <3>2. i \in DOMAIN events /\ events[i] = Won(m)
      BY <1>3, <2>1, <3>1, Zenon DEF Added
    <3>3. CASE m = l
      BY <1>3, <3>2, <3>3, Zenon DEF Added
    <3>4. CASE m # l
      <4>1. chain[m] = "closed" /\ m \in Leases \ late
        BY <1>7, <1>8, <2>1, <3>4, Zenon
      <4>2. PICK j \in DOMAIN events : i < j /\ events[j] = Closed(m)
        BY <3>2, <4>1, Zenon DEF HandlerInv, Ordered
      <4> QED BY <1>3, <4>2, Zenon DEF Added
    <3> QED BY <3>3, <3>4
  <2>2. ASSUME NEW m \in Leases, NEW i \in DOMAIN events', NEW j \in DOMAIN events',
               events'[i] = Over(DeploymentOf[m]), events'[j] = Closed(m)
        PROVE  j < i
    <3>1. Over(DeploymentOf[m]) # Closed(l) /\ (Closed(m) = Closed(l) => m = l)
      BY EventsDiffer, Zenon
    <3>2. i \in DOMAIN events /\ events[i] = Over(DeploymentOf[m])
      BY <1>3, <2>2, <3>1, Zenon DEF Added
    <3>3. Pending(Over(DeploymentOf[m])) /\ DeploymentOf[m] \in Deployments
      BY <3>2, ManifestHandlerAssumption DEF Pending
    <3>4. chain[m] # "active"
      BY <3>3, Zenon DEF HandlerInv, Told
    <3>5. j \in DOMAIN events /\ events[j] = Closed(m)
      BY <1>1, <1>3, <2>2, <3>1, <3>4, Zenon DEF Added
    <3> QED BY <3>2, <3>5, Zenon DEF HandlerInv, Ordered
  <2> QED BY <2>1, <2>2, Zenon
<1>12. Holds'
  <2> SUFFICES ASSUME svc = "running", ~twice, NEW m \in Leases \ late'
               PROVE  /\ chain'[m] = "active" /\ m \in announced /\ ~Pending(Won(m))' => m \in Range(held[DeploymentOf[m]])
                      /\ m \in Range(held[DeploymentOf[m]]) /\ chain'[m] = "closed" => Pending(Closed(m))'
    BY <1>1, Zenon DEF Holds
  <2>1. CASE m = l
    BY <1>6, <1>7, <2>1
  <2>2. CASE m # l
    <3>1. m \in Leases \ late /\ chain'[m] = chain[m]
      BY <1>7, <1>8, <2>2
    <3>2. /\ chain[m] = "active" /\ m \in announced /\ ~Pending(Won(m)) => m \in Range(held[DeploymentOf[m]])
          /\ m \in Range(held[DeploymentOf[m]]) /\ chain[m] = "closed" => Pending(Closed(m))
      BY <3>1, Zenon DEF HandlerInv, Holds
    <3>3. (Pending(Won(m)) => Pending(Won(m))') /\ (Pending(Closed(m)) => Pending(Closed(m))')
      BY <1>5, Zenon
    <3> QED BY <3>1, <3>2, <3>3, Zenon
  <2> QED BY <2>1, <2>2
<1> QED BY <1>4, <1>9, <1>10, <1>11, <1>12 DEF HandlerInv

\* A deployment closes behind the events of its leases, which are over.
LEMMA DeploymentClosedKeeps ==
    ASSUME HandlerInv, NEW d \in Deployments, DeploymentClosed(d)
    PROVE  HandlerInv'
<1>1. /\ d \notin over /\ (\A l \in Leases : DeploymentOf[l] = d => chain[l] # "active")
      /\ over' = over \cup {d} /\ Publish(Over(d))
      /\ UNCHANGED <<svc, managers, phase, held, chain, announced, twice, late>>
  BY DEF DeploymentClosed, Over
<1>2. HandlerTypes
  BY DEF HandlerInv
<1>3. Added(Over(d))
  BY <1>1, <1>2, PublishAdds, Zenon DEF HandlerEvents
<1>4. HandlerTypes'
  BY <1>1, <1>2, <1>3 DEF HandlerTypes, Added
<1>5. ASSUME NEW x PROVE (Pending(x) => Pending(x)') /\ (Pending(x)' => Pending(x) \/ x = Over(d))
  BY <1>3, AddedPending, Zenon
<1>6. ASSUME NEW m \in Leases
      PROVE  (Pending(Won(m))' <=> Pending(Won(m))) /\ (Pending(Closed(m))' <=> Pending(Closed(m)))
  <2>1. Won(m) # Over(d) /\ Closed(m) # Over(d)
    BY EventsDiffer, Zenon
  <2> QED BY <1>5, <2>1, Zenon
<1>7. Managed' /\ Belong' /\ Leaving' /\ PanicsOnlyIfTwice'
  <2>1. UNCHANGED <<svc, managers, phase, held, twice>> /\ late \subseteq late' /\ over \subseteq over'
        /\ \A m \in Leases : chain[m] # "none" => chain'[m] # "none"
    BY <1>1
  <2> QED BY <2>1, HandlerIdle, Zenon
<1>8. Told'
  <2>1. ASSUME NEW m \in Leases
        PROVE  /\ Pending(Won(m))' => m \in announced
               /\ Pending(Closed(m))' => chain[m] = "closed"
               /\ m \in announced => chain[m] # "none"
               /\ chain[m] = "closed" => m \in announced \cup late
               /\ DeploymentOf[m] \in over' => chain[m] # "active"
    <3>1. /\ Pending(Won(m)) => m \in announced
          /\ Pending(Closed(m)) => chain[m] = "closed"
          /\ m \in announced => chain[m] # "none"
          /\ chain[m] = "closed" => m \in announced \cup late
          /\ DeploymentOf[m] \in over => chain[m] # "active"
      BY DEF HandlerInv, Told
    <3>2. DeploymentOf[m] \in over' => DeploymentOf[m] \in over \/ DeploymentOf[m] = d
      BY <1>1, Zenon
    <3>3. DeploymentOf[m] = d => chain[m] # "active"
      BY <1>1
    <3> QED BY <1>6, <3>1, <3>2, <3>3, Zenon
  <2>2. ASSUME NEW e \in Deployments, Pending(Over(e))' PROVE e \in over'
    <3>1. Pending(Over(e)) \/ e = d
      BY <1>5, <2>2, EventsDiffer, Zenon
    <3>2. Pending(Over(e)) => e \in over
      BY DEF HandlerInv, Told
    <3> QED BY <1>1, <3>1, <3>2, Zenon
  <2> QED BY <1>1, <2>1, <2>2, Zenon DEF Told
<1>9. Ordered'
  <2> SUFFICES ASSUME svc \in {"starting", "running"}
               PROVE  /\ \A m \in Leases \ late, i \in DOMAIN events' : events'[i] = Won(m) /\ chain[m] = "closed"
                             => \E j \in DOMAIN events' : i < j /\ events'[j] = Closed(m)
                      /\ \A m \in Leases, i, j \in DOMAIN events' :
                             events'[i] = Over(DeploymentOf[m]) /\ events'[j] = Closed(m) => j < i
    BY <1>1, Zenon DEF Ordered
  <2>1. ASSUME NEW m \in Leases \ late, NEW i \in DOMAIN events', events'[i] = Won(m), chain[m] = "closed"
        PROVE  \E j \in DOMAIN events' : i < j /\ events'[j] = Closed(m)
    <3>1. Won(m) # Over(d)
      BY EventsDiffer, Zenon
    <3>2. i \in DOMAIN events /\ events[i] = Won(m)
      BY <1>3, <2>1, <3>1, Zenon DEF Added
    <3>3. PICK j \in DOMAIN events : i < j /\ events[j] = Closed(m)
      BY <2>1, <3>2, Zenon DEF HandlerInv, Ordered
    <3> QED BY <1>3, <3>3, Zenon DEF Added
  <2>2. ASSUME NEW m \in Leases, NEW i \in DOMAIN events', NEW j \in DOMAIN events',
               events'[i] = Over(DeploymentOf[m]), events'[j] = Closed(m)
        PROVE  j < i
    <3>1. Closed(m) # Over(d)
      BY EventsDiffer, Zenon
    <3>2. j \in DOMAIN events /\ events[j] = Closed(m)
      BY <1>3, <2>2, <3>1, Zenon DEF Added
    <3>3. CASE i \in DOMAIN events
      <4>1. events[i] = Over(DeploymentOf[m])
        BY <1>3, <2>2, <3>3, Zenon DEF Added
      <4> QED BY <3>2, <3>3, <4>1, Zenon DEF HandlerInv, Ordered
    <3>4. CASE i \notin DOMAIN events
      BY <1>3, <3>2, <3>4, Zenon DEF Added
    <3> QED BY <3>3, <3>4
  <2> QED BY <2>1, <2>2, Zenon
<1>10. Holds'
  <2> SUFFICES ASSUME svc = "running", ~twice, NEW m \in Leases \ late
               PROVE  /\ chain[m] = "active" /\ m \in announced /\ ~Pending(Won(m))' => m \in Range(held[DeploymentOf[m]])
                      /\ m \in Range(held[DeploymentOf[m]]) /\ chain[m] = "closed" => Pending(Closed(m))'
    BY <1>1, Zenon DEF Holds
  <2>1. /\ chain[m] = "active" /\ m \in announced /\ ~Pending(Won(m)) => m \in Range(held[DeploymentOf[m]])
        /\ m \in Range(held[DeploymentOf[m]]) /\ chain[m] = "closed" => Pending(Closed(m))
    BY Zenon DEF HandlerInv, Holds
  <2> QED BY <1>6, <2>1, Zenon
<1> QED BY <1>4, <1>7, <1>8, <1>9, <1>10 DEF HandlerInv

\* The leases listed at the start: a sequence of some of those that are active.
LEMMA Listed ==
    ASSUME HandlerTypes, NEW S \in SUBSET Active, NEW ls \in Bijection(1 .. Cardinality(S), S)
    PROVE  ls \in Seq(Leases) /\ Distinct(ls) /\ Range(ls) \subseteq Active
<1> DEFINE n == Cardinality(S)
<1>1. S \subseteq Leases
  BY DEF Active
<1>2. n \in Nat
  BY <1>1, ManifestHandlerAssumption, Zenon
<1>3. ls \in [1 .. n -> S] /\ \A i, j \in 1 .. n : i # j => ls[i] # ls[j]
  BY DEF Bijection, Injection, IsInjective
<1> HIDE DEF n
<1>4. ls \in Seq(S) /\ DOMAIN ls = 1 .. n
  BY <1>2, <1>3
<1>5. Distinct(ls) /\ Range(ls) \subseteq S
  BY <1>3, <1>4, Zenon DEF Distinct, Range
<1>6. ls \in Seq(Leases)
  BY <1>1, <1>4
<1> QED BY <1>5, <1>6

\* The leases that are active when the handler starts are with their managers, or late.
LEMMA StartKeeps ==
    ASSUME HandlerInv, NEW S \in SUBSET Active, NEW ls \in Bijection(1 .. Cardinality(S), S), Start(ls),
           HandsOut(ls)
    PROVE  HandlerInv'
<1> DEFINE z == handleLeases(State, ls)
<1>1. /\ svc = "starting" /\ svc' = "running" /\ late' = late \cup (Active \ Range(ls))
      /\ UNCHANGED <<events, chain, announced, over>> /\ Become(z)
  BY DEF Start, world
<1>2. managers' = z.managers /\ phase' = z.phase /\ held' = z.held /\ twice' = z.twice
  BY <1>1, Zenon DEF Become
<1>3. HandlerTypes /\ ls \in Seq(Leases) /\ Distinct(ls) /\ Range(ls) \subseteq Active
  BY Listed, Zenon DEF HandlerInv
<1>4. GivenOut(State, {})
  <2>1. State \in HandlerStates
    BY <1>3 DEF HandlerTypes, HandlerStates, State
  <2>2. State.managers = managers /\ State.phase = phase /\ State.held = held /\ State.twice = twice
    BY DEF State
  <2>3. ~twice /\ \A d \in Deployments : (d \in managers <=> phase[d] # "none") /\ phase[d] = "none" /\ held[d] = << >>
    BY <1>1 DEF HandlerInv, Managed
  <2>4. Distinct(<< >>) /\ Range(<< >>) = {}
    BY DEF Distinct, Range
  <2>5. ASSUME NEW d \in Deployments
        PROVE  /\ d \in State.managers <=> State.phase[d] # "none"
               /\ State.phase[d] # "leaving"
               /\ State.phase[d] = "none" => State.held[d] = << >>
               /\ Distinct(State.held[d]) /\ Range(State.held[d]) = {l \in {} : DeploymentOf[l] = d}
    BY <2>2, <2>3, <2>4
  <2> QED BY <2>1, <2>2, <2>3, <2>5, Zenon DEF GivenOut
<1>5. GivenOut(z, Range(ls))
  BY <1>4, Zenon DEF HandsOut, GivenOut
<1> HIDE DEF z
<1>6. z \in HandlerStates /\ ~twice'
      /\ \A d \in Deployments :
            /\ d \in managers' <=> phase'[d] # "none"
            /\ phase'[d] # "leaving"
            /\ phase'[d] = "none" => held'[d] = << >>
            /\ Distinct(held'[d]) /\ Range(held'[d]) = {l \in Range(ls) : DeploymentOf[l] = d}
  BY <1>2, <1>5, Zenon DEF GivenOut
<1>7. HandlerTypes'
  <2>1. z.managers \in SUBSET Deployments /\ z.phase \in [Deployments -> {"none", "loop", "leaving"}]
        /\ z.held \in [Deployments -> Seq(Leases)] /\ z.twice \in BOOLEAN
    BY <1>6, SMTT(30) DEF HandlerStates
  <2> QED BY <1>1, <1>2, <1>3, <2>1, SMTT(30) DEF HandlerTypes
<1>8. Managed'
  BY <1>1, <1>6 DEF Managed
<1>9. \A l \in Active : l \in Leases /\ chain[l] = "active"
  BY DEF Active
<1>10. Belong'
  BY <1>1, <1>3, <1>6, <1>9 DEF Belong
<1>11. late \subseteq late' /\ \A x : Pending(x)' <=> Pending(x)
  BY <1>1 DEF Pending
<1>12. Told'
  BY <1>1, <1>11, Zenon DEF HandlerInv, Told
<1>13. Ordered'
  BY <1>1, <1>11, Zenon DEF HandlerInv, Ordered
<1>14. Leaving'
  BY <1>6, ZenonT(30) DEF Leaving
<1>15. Holds'
  <2> SUFFICES ASSUME NEW l \in Leases \ late'
               PROVE  /\ chain[l] = "active" => l \in Range(held'[DeploymentOf[l]])
                      /\ l \in Range(held'[DeploymentOf[l]]) => chain[l] # "closed"
    BY <1>1, Zenon DEF Holds
  <2>1. DeploymentOf[l] \in Deployments
    BY ManifestHandlerAssumption
  <2>2. chain[l] = "active" => l \in Range(ls)
    BY <1>1 DEF Active
  <2>3. l \in Range(ls) => chain[l] = "active"
    BY <1>3, <1>9
  <2> QED BY <1>6, <2>1, <2>2, <2>3
<1>16. PanicsOnlyIfTwice'
  BY <1>1 DEF PanicsOnlyIfTwice
<1> QED BY <1>7, <1>8, <1>10, <1>12, <1>13, <1>14, <1>15, <1>16 DEF HandlerInv

\* A lease that is announced goes to its manager; one whose deployment is over is late.
LEMMA TakeLeaseWonKeeps ==
    ASSUME HandlerInv, TakeLeaseWon
    PROVE  HandlerInv'
<1> DEFINE l == Head(events).lease
           d == DeploymentOf[l]
           z == handleLease(State, l)
<1>1. /\ Reads("won") /\ svc = "running" /\ events' = Tail(events)
      /\ UNCHANGED <<svc, late, chain, announced, over>> /\ Become(z)
  BY DEF TakeLeaseWon, Reads, world
<1>2. managers' = z.managers /\ phase' = z.phase /\ held' = z.held /\ twice' = z.twice
  BY <1>1, Zenon DEF Become
<1>3. HandlerTypes
  BY DEF HandlerInv
<1>4. /\ events' \in Seq(HandlerEvents) /\ Head(events) \in HandlerEvents /\ Head(events).type = "won"
      /\ 1 \in DOMAIN events /\ events[1] = Head(events)
      /\ \A x : (Pending(x)' => Pending(x)) /\ (Pending(x) /\ x # Head(events) => Pending(x)')
  BY <1>1, <1>3, TakesFirst, Zenon
<1>5. l \in Leases /\ Head(events) = Won(l) /\ d \in Deployments
  BY <1>4, EventKinds, ManifestHandlerAssumption
<1>6. State \in HandlerStates /\ State.managers = managers /\ State.phase = phase /\ State.held = held
      /\ State.twice = twice
  BY <1>3 DEF HandlerTypes, HandlerStates, State
<1>7. \A e \in Deployments : (e \in managers <=> phase[e] # "none") /\ (phase[e] = "none" => held[e] = << >>)
  BY DEF HandlerInv, Managed
<1>8. Before(State, d) = held[d]
  BY <1>5, <1>6, <1>7 DEF Before
<1>9. /\ z \in HandlerStates
      /\ phase[d] = "leaving" => z = State
      /\ phase[d] # "leaving" =>
            /\ z.managers = managers \cup {d} /\ z.phase = [phase EXCEPT ![d] = "loop"]
            /\ z.held = [held EXCEPT ![d] = Append(held[d], l)]
            /\ z.twice <=> (twice \/ l \in Range(held[d]))
  <2>1. d \in State.managers <=> State.phase[d] # "none"
    BY <1>5, <1>6, <1>7
  <2>2. /\ z \in HandlerStates
        /\ State.phase[d] = "leaving" => z = State
        /\ State.phase[d] # "leaving" =>
            /\ z.managers = State.managers \cup {d} /\ z.phase = [State.phase EXCEPT ![d] = "loop"]
            /\ z.held = [State.held EXCEPT ![d] = Append(Before(State, d), l)]
            /\ z.twice <=> (State.twice \/ l \in Range(Before(State, d)))
    BY <1>5, <1>6, <2>1, HandleLease, Zenon
  <2> HIDE DEF l, d, z
  <2> QED BY <1>6, <1>8, <2>2, Zenon
<1> HIDE DEF l, d, z
<1>10. HandlerTypes'
  <2>1. z.managers \in SUBSET Deployments /\ z.phase \in [Deployments -> {"none", "loop", "leaving"}]
        /\ z.held \in [Deployments -> Seq(Leases)] /\ z.twice \in BOOLEAN
    BY <1>9 DEF HandlerStates
  <2> QED BY <1>1, <1>2, <1>3, <1>4, <2>1 DEF HandlerTypes
<1>11. Told'
  BY <1>1, <1>4, Zenon DEF HandlerInv, Told
<1>12. Ordered'
  BY <1>1, <1>3, TakesInOrder DEF HandlerInv
<1>13. PanicsOnlyIfTwice'
  BY <1>1 DEF PanicsOnlyIfTwice
<1>14. ASSUME NEW m \in Leases
       PROVE  (m # l => (Pending(Won(m))' <=> Pending(Won(m)))) /\ (Pending(Closed(m))' <=> Pending(Closed(m)))
  <2>1. Closed(m) # Won(l) /\ (m # l => Won(m) # Won(l))
    BY EventsDiffer, Zenon
  <2> QED BY <1>4, <1>5, <2>1, Zenon
<1>15. Pending(Won(l)) /\ l \in announced /\ chain[l] # "none"
  <2>1. Pending(Won(l))
    BY <1>4, <1>5, Zenon DEF Pending
  <2> QED BY <1>5, <2>1, Zenon DEF HandlerInv, Told
<1>16. CASE phase[d] = "leaving"
  <2>1. UNCHANGED <<managers, phase, held, twice>>
    BY <1>2, <1>6, <1>9, <1>16, Zenon
  <2>2. chain[l] # "active"
    BY <1>1, <1>5, <1>16 DEF HandlerInv, Leaving, Told, d
  <2>3. Managed' /\ Belong' /\ Leaving'
    BY <1>1, <2>1 DEF HandlerInv, Managed, Belong, Leaving
  <2>4. Holds'
    <3> SUFFICES ASSUME ~twice, NEW m \in Leases \ late
                 PROVE  /\ chain[m] = "active" /\ m \in announced /\ ~Pending(Won(m))' => m \in Range(held[DeploymentOf[m]])
                        /\ m \in Range(held[DeploymentOf[m]]) /\ chain[m] = "closed" => Pending(Closed(m))'
      BY <1>1, <2>1, Zenon DEF Holds
    <3>1. /\ chain[m] = "active" /\ m \in announced /\ ~Pending(Won(m)) => m \in Range(held[DeploymentOf[m]])
          /\ m \in Range(held[DeploymentOf[m]]) /\ chain[m] = "closed" => Pending(Closed(m))
      BY <1>1, Zenon DEF HandlerInv, Holds
    <3> QED BY <1>14, <2>2, <3>1, Zenon
  <2> QED BY <1>10, <1>11, <1>12, <1>13, <2>3, <2>4 DEF HandlerInv
<1>17. CASE phase[d] # "leaving"
  <2>1. /\ managers' = managers \cup {d} /\ phase' = [phase EXCEPT ![d] = "loop"]
        /\ held' = [held EXCEPT ![d] = Append(held[d], l)]
        /\ twice' <=> (twice \/ l \in Range(held[d]))
    BY <1>2, <1>9, <1>17, Zenon
  <2>2. held \in [Deployments -> Seq(Leases)] /\ phase \in [Deployments -> {"none", "loop", "leaving"}]
    BY <1>3 DEF HandlerTypes
  <2>3. /\ phase'[d] = "loop" /\ held'[d] = Append(held[d], l)
        /\ \A e \in Deployments : e # d => phase'[e] = phase[e] /\ held'[e] = held[e]
    BY <1>5, <2>1, <2>2
  <2>4. held[d] \in Seq(Leases)
    BY <1>5, <2>2
  <2>5. /\ Range(held'[d]) = Range(held[d]) \cup {l}
        /\ Distinct(held[d]) /\ l \notin Range(held[d]) => Distinct(held'[d])
    BY <1>5, <2>3, <2>4, AppendNew, Zenon
  <2>6. Managed'
    BY <1>1, <1>5, <1>7, <2>1, <2>3, SMTT(30) DEF Managed
  <2>7. Belong'
    <3> SUFFICES ASSUME ~twice', NEW e \in Deployments
                 PROVE  Distinct(held'[e]) /\ \A m \in Range(held'[e]) : DeploymentOf[m] = e /\ chain[m] # "none"
      BY <1>1, Zenon DEF Belong
    <3>1. Distinct(held[e]) /\ \A m \in Range(held[e]) : DeploymentOf[m] = e /\ chain[m] # "none"
      BY <2>1, Zenon DEF HandlerInv, Belong
    <3>2. CASE e # d
      BY <2>3, <3>1, <3>2, Zenon
    <3>3. CASE e = d
      <4>1. l \notin Range(held[d])
        BY <2>1, Zenon
      <4> QED BY <1>15, <2>5, <3>1, <3>3, <4>1, Zenon DEF d
    <3> QED BY <3>2, <3>3
  <2>8. Leaving'
    <3> SUFFICES ASSUME NEW e \in Deployments, phase'[e] = "leaving"
                 PROVE  e \in over /\ (~twice' => Range(held'[e]) \subseteq late)
      BY <1>1, Zenon DEF Leaving
    <3>1. e # d
      BY <2>3
    <3>2. e \in over /\ (~twice => Range(held[e]) \subseteq late)
      BY <1>1, <2>3, <3>1 DEF HandlerInv, Leaving
    <3> QED BY <2>1, <2>3, <3>1, <3>2, Zenon
  <2>9. Holds'
    <3> SUFFICES ASSUME ~twice', NEW m \in Leases \ late
                 PROVE  /\ chain[m] = "active" /\ m \in announced /\ ~Pending(Won(m))' => m \in Range(held'[DeploymentOf[m]])
                        /\ m \in Range(held'[DeploymentOf[m]]) /\ chain[m] = "closed" => Pending(Closed(m))'
      BY <1>1, Zenon DEF Holds
    <3>1. /\ chain[m] = "active" /\ m \in announced /\ ~Pending(Won(m)) => m \in Range(held[DeploymentOf[m]])
          /\ m \in Range(held[DeploymentOf[m]]) /\ chain[m] = "closed" => Pending(Closed(m))
      BY <1>1, <2>1, Zenon DEF HandlerInv, Holds
    <3>2. CASE m = l
      <4>1. l \in Range(held'[d])
        BY <2>5, Zenon
      <4>2. chain[l] = "closed" => Pending(Closed(l))
        BY <1>1, <1>4, <1>5, <3>2, Zenon DEF HandlerInv, Ordered, Pending
      <4> QED BY <1>14, <3>2, <4>1, <4>2, Zenon DEF d
    <3>3. CASE m # l
      <4>1. DeploymentOf[m] \in Deployments
        BY ManifestHandlerAssumption
      <4>2. m \in Range(held'[DeploymentOf[m]]) <=> m \in Range(held[DeploymentOf[m]])
        BY <2>3, <2>5, <3>3, <4>1, Zenon
      <4> QED BY <1>14, <3>1, <3>3, <4>2, Zenon
    <3> QED BY <3>2, <3>3
  <2> QED BY <1>10, <1>11, <1>12, <1>13, <2>6, <2>7, <2>8, <2>9 DEF HandlerInv
<1> QED BY <1>16, <1>17

\* The end of a lease takes it out of its manager's slice.
LEMMA TakeLeaseClosedKeeps ==
    ASSUME HandlerInv, TakeLeaseClosed, \A ls \in Seq(Leases), m \in Leases : Removes(ls, m)
    PROVE  HandlerInv'
<1> DEFINE l == Head(events).lease
           d == DeploymentOf[l]
           r == removeLease(held[d], l)
           new == SubSeq(r.arr, 1, r.len)
<1>1. /\ Reads("closed") /\ svc = "running" /\ events' = Tail(events)
      /\ IF d \in managers /\ phase[d] = "loop"
         THEN held' = [held EXCEPT ![d] = new] /\ svc' = IF r.ok THEN svc ELSE "panicked"
         ELSE UNCHANGED <<svc, held>>
      /\ UNCHANGED <<managers, phase, twice, late, chain, announced, over>>
  BY ZenonT(30) DEF TakeLeaseClosed, Reads, world
<1>2. HandlerTypes
  BY DEF HandlerInv
<1>3. /\ events' \in Seq(HandlerEvents) /\ Head(events) \in HandlerEvents /\ Head(events).type = "closed"
      /\ 1 \in DOMAIN events /\ events[1] = Head(events)
      /\ \A x : (Pending(x)' => Pending(x)) /\ (Pending(x) /\ x # Head(events) => Pending(x)')
  BY <1>1, <1>2, TakesFirst, ZenonT(30)
<1>4. l \in Leases /\ Head(events) = Closed(l) /\ d \in Deployments
  BY <1>3, EventKinds, ManifestHandlerAssumption
<1>5. held \in [Deployments -> Seq(Leases)] /\ held[d] \in Seq(Leases)
  BY <1>2, <1>4 DEF HandlerTypes
<1>6. new \in Seq(Leases)
  <2>1. r \in Slices(held[d])
    BY <1>4, <1>5, Zenon DEF Removes
  <2>2. r.arr \in [1 .. Len(held[d]) -> Leases] /\ r.len \in 0 .. Len(held[d])
    <3> HIDE DEF r, d, l
    <3> QED BY <2>1 DEF Slices
  <2> HIDE DEF r, d, l
  <2> QED BY <1>5, <2>2, SMTT(30)
<1>7. ~twice => r.ok /\ Distinct(new) /\ Range(new) = Range(held[d]) \ {l}
  <2>1. ~twice => Distinct(held[d])
    BY <1>4 DEF HandlerInv, Belong
  <2> QED BY <1>4, <1>5, <2>1, Zenon DEF Removes
<1> HIDE DEF l, d, r, new
<1>8. (svc' = "running" \/ svc' = "panicked") /\ (svc' = "panicked" => twice)
  BY <1>1, <1>7
<1>9. /\ \A e \in Deployments : e # d => held'[e] = held[e]
      /\ held' \in [Deployments -> Seq(Leases)]
      /\ held'[d] = IF d \in managers /\ phase[d] = "loop" THEN new ELSE held[d]
  BY <1>1, <1>4, <1>5, <1>6, SMTT(30)
<1>10. HandlerTypes'
  BY <1>1, <1>2, <1>3, <1>8, <1>9 DEF HandlerTypes
<1>11. Told'
  BY <1>1, <1>3, Zenon DEF HandlerInv, Told
<1>12. Ordered'
  BY <1>1, <1>2, TakesInOrder DEF HandlerInv
<1>13. PanicsOnlyIfTwice'
  BY <1>1, <1>8 DEF PanicsOnlyIfTwice
<1>14. ASSUME NEW m \in Leases
       PROVE  (Pending(Won(m))' <=> Pending(Won(m))) /\ (m # l => (Pending(Closed(m))' <=> Pending(Closed(m))))
  <2>1. Won(m) # Closed(l) /\ (m # l => Closed(m) # Closed(l))
    BY EventsDiffer, Zenon
  <2> QED BY <1>3, <1>4, <2>1, Zenon
<1>15. chain[l] = "closed"
  <2>1. Pending(Closed(l))
    BY <1>3, <1>4, Zenon DEF Pending
  <2> QED BY <1>4, <2>1, Zenon DEF HandlerInv, Told
<1>16. Managed'
  BY <1>1, <1>4, <1>8, <1>9 DEF HandlerInv, Managed
<1>17. ASSUME ~twice, NEW e \in Deployments PROVE Range(held'[e]) \subseteq Range(held[e]) /\ Distinct(held'[e])
  <2>1. Distinct(held[e])
    BY <1>17 DEF HandlerInv, Belong
  <2> QED BY <1>7, <1>9, <1>17, <2>1, SMTT(30)
<1>18. Belong'
  BY <1>1, <1>17, Zenon DEF HandlerInv, Belong
<1>19. Leaving'
  BY <1>1, <1>17, ZenonT(30) DEF HandlerInv, Leaving
<1>20. Holds'
  <2> SUFFICES ASSUME ~twice, NEW m \in Leases \ late
               PROVE  /\ chain[m] = "active" /\ m \in announced /\ ~Pending(Won(m))' => m \in Range(held'[DeploymentOf[m]])
                      /\ m \in Range(held'[DeploymentOf[m]]) /\ chain[m] = "closed" => Pending(Closed(m))'
    BY <1>1, Zenon DEF Holds
  <2>1. /\ chain[m] = "active" /\ m \in announced /\ ~Pending(Won(m)) => m \in Range(held[DeploymentOf[m]])
        /\ m \in Range(held[DeploymentOf[m]]) /\ chain[m] = "closed" => Pending(Closed(m))
    BY <1>1, Zenon DEF HandlerInv, Holds
  <2>2. CASE m = l
    <3>1. m \notin Range(held'[d])
      <4>1. CASE phase[d] = "loop"
        <5>1. held'[d] = new
          BY <1>4, <1>9, <4>1 DEF HandlerInv, Managed
        <5> QED BY <1>7, <2>2, <5>1
      <4>2. CASE phase[d] = "leaving"
        <5>1. held'[d] = held[d] /\ Range(held[d]) \subseteq late
          BY <1>1, <1>4, <1>9, <4>2 DEF HandlerInv, Leaving
        <5> QED BY <5>1
      <4>3. CASE phase[d] = "none"
        <5>1. held'[d] = << >>
          BY <1>4, <1>9, <4>3 DEF HandlerInv, Managed
        <5> QED BY <5>1 DEF Range
      <4> QED BY <1>2, <1>4, <4>1, <4>2, <4>3 DEF HandlerTypes
    <3> QED BY <1>15, <2>2, <3>1 DEF d
  <2>3. CASE m # l
    <3>1. DeploymentOf[m] \in Deployments
      BY ManifestHandlerAssumption
    <3>2. m \in Range(held'[DeploymentOf[m]]) <=> m \in Range(held[DeploymentOf[m]])
      BY <1>7, <1>9, <2>3, <3>1
    <3> QED BY <1>14, <2>1, <2>3, <3>2, Zenon
  <2> QED BY <2>2, <2>3
<1> QED BY <1>10, <1>11, <1>12, <1>13, <1>16, <1>18, <1>19, <1>20, SMTT(30) DEF HandlerInv

\* A manager told to leave holds nothing that is still active: the ends of its leases came
\* before.
LEMMA TakeDeploymentCloseKeeps ==
    ASSUME HandlerInv, TakeDeploymentClose
    PROVE  HandlerInv'
<1> DEFINE d == Head(events).deployment
<1>1. /\ Reads("over") /\ svc = "running" /\ events' = Tail(events)
      /\ phase' = IF d \in managers THEN [phase EXCEPT ![d] = "leaving"] ELSE phase
      /\ UNCHANGED <<svc, managers, held, twice, late, chain, announced, over>>
  BY DEF TakeDeploymentClose, Reads, world
<1>2. HandlerTypes /\ phase \in [Deployments -> {"none", "loop", "leaving"}]
  BY DEF HandlerInv, HandlerTypes
<1>3. /\ events' \in Seq(HandlerEvents) /\ Head(events) \in HandlerEvents /\ Head(events).type = "over"
      /\ 1 \in DOMAIN events /\ events[1] = Head(events)
      /\ \A x : (Pending(x)' => Pending(x)) /\ (Pending(x) /\ x # Head(events) => Pending(x)')
  BY <1>1, <1>2, TakesFirst, Zenon
<1>4. d \in Deployments /\ Head(events) = Over(d)
  BY <1>3, EventKinds
<1> HIDE DEF d
<1>5. HandlerTypes'
  BY <1>1, <1>2, <1>3, <1>4 DEF HandlerTypes
<1>6. Told'
  BY <1>1, <1>3, Zenon DEF HandlerInv, Told
<1>7. Ordered'
  BY <1>1, <1>2, TakesInOrder DEF HandlerInv
<1>8. Belong' /\ PanicsOnlyIfTwice'
  BY <1>1 DEF HandlerInv, Belong, PanicsOnlyIfTwice
<1>9. d \in over
  <2>1. Pending(Over(d))
    BY <1>3, <1>4, Zenon DEF Pending
  <2> QED BY <1>4, <2>1, Zenon DEF HandlerInv, Told
<1>10. ASSUME NEW m \in Leases
       PROVE  (Pending(Won(m))' <=> Pending(Won(m))) /\ (Pending(Closed(m))' <=> Pending(Closed(m)))
  <2>1. Won(m) # Over(d) /\ Closed(m) # Over(d)
    BY EventsDiffer, Zenon
  <2> QED BY <1>3, <1>4, <2>1, Zenon
<1>11. Managed'
  BY <1>1, <1>2, <1>4 DEF HandlerInv, Managed
<1>12. ASSUME ~twice, NEW m \in Range(held[d]) PROVE m \in late
  <2> SUFFICES ASSUME m \notin late PROVE FALSE
    OBVIOUS
  <2>1. m \in Leases
    BY <1>2, <1>4 DEF HandlerTypes, Range
  <2>2. DeploymentOf[m] = d /\ chain[m] # "none"
    BY <1>4, <1>12 DEF HandlerInv, Belong
  <2>3. chain[m] # "active"
    BY <1>9, <2>1, <2>2 DEF HandlerInv, Told
  <2>4. chain[m] = "closed"
    BY <1>2, <2>1, <2>2, <2>3 DEF HandlerTypes
  <2>5. Pending(Closed(m))
    BY <1>1, <1>12, <2>1, <2>2, <2>4, Zenon DEF HandlerInv, Holds
  <2>6. PICK j \in DOMAIN events : events[j] = Closed(m)
    BY <2>5, SMTT(30) DEF Pending
  <2>7. j < 1
    BY <1>1, <1>3, <1>4, <2>1, <2>2, <2>6 DEF HandlerInv, Ordered
  <2> QED BY <1>2, <2>6, <2>7 DEF HandlerTypes
<1>13. Leaving'
  <2> SUFFICES ASSUME NEW e \in Deployments, phase'[e] = "leaving"
               PROVE  e \in over /\ (~twice => Range(held[e]) \subseteq late)
    BY <1>1, Zenon DEF Leaving
  <2>1. CASE e = d
    BY <1>9, <1>12, <2>1
  <2>2. CASE e # d
    <3>1. phase[e] = "leaving"
      BY <1>1, <1>2, <2>2
    <3> QED BY <1>1, <3>1 DEF HandlerInv, Leaving
  <2> QED BY <2>1, <2>2
<1>14. Holds'
  BY <1>1, <1>10, Zenon DEF HandlerInv, Holds
<1> QED BY <1>5, <1>6, <1>7, <1>8, <1>11, <1>13, <1>14, SMTT(30) DEF HandlerInv

\* The handler forgets a manager that holds nothing that is active.
LEMMA ManagerDoneKeeps ==
    ASSUME HandlerInv, NEW d \in Deployments, ManagerDone(d)
    PROVE  HandlerInv'
<1>1. /\ phase[d] = "leaving" /\ managers' = managers \ {d} /\ phase' = [phase EXCEPT ![d] = "none"]
      /\ held' = [held EXCEPT ![d] = << >>]
      /\ UNCHANGED <<svc, events, twice, late, chain, announced, over>>
      /\ svc \in {"running", "draining"}
  BY DEF ManagerDone, world
<1>2. HandlerTypes /\ held \in [Deployments -> Seq(Leases)] /\ phase \in [Deployments -> {"none", "loop", "leaving"}]
  BY DEF HandlerInv, HandlerTypes
<1>3. /\ phase'[d] = "none" /\ held'[d] = << >> /\ Range(held'[d]) = {} /\ Distinct(held'[d])
      /\ \A e \in Deployments : e # d => phase'[e] = phase[e] /\ held'[e] = held[e]
  BY <1>1, <1>2 DEF Range, Distinct
<1>4. HandlerTypes'
  BY <1>1, <1>2 DEF HandlerTypes
<1>5. \A x : Pending(x)' <=> Pending(x)
  BY <1>1 DEF Pending
<1>6. Told' /\ Ordered' /\ PanicsOnlyIfTwice'
  <2>1. Told'
    BY <1>1, <1>5, Zenon DEF HandlerInv, Told
  <2>2. Ordered'
    BY <1>1, ZenonT(30) DEF HandlerInv, Ordered
  <2> QED BY <1>1, <2>1, <2>2 DEF HandlerInv, PanicsOnlyIfTwice
<1>7. Managed'
  BY <1>1, <1>3 DEF HandlerInv, Managed
<1>8. Belong'
  BY <1>1, <1>3, ZenonT(30) DEF HandlerInv, Belong
<1>9. Leaving'
  BY <1>1, <1>3, SMTT(30) DEF HandlerInv, Leaving
<1>10. Holds'
  <2> SUFFICES ASSUME svc = "running", ~twice, NEW m \in Leases \ late
               PROVE  /\ chain[m] = "active" /\ m \in announced /\ ~Pending(Won(m)) => m \in Range(held'[DeploymentOf[m]])
                      /\ m \in Range(held'[DeploymentOf[m]]) /\ chain[m] = "closed" => Pending(Closed(m))
    BY <1>1, <1>5, ZenonT(30) DEF Holds
  <2>1. /\ chain[m] = "active" /\ m \in announced /\ ~Pending(Won(m)) => m \in Range(held[DeploymentOf[m]])
        /\ m \in Range(held[DeploymentOf[m]]) /\ chain[m] = "closed" => Pending(Closed(m))
    BY Zenon DEF HandlerInv, Holds
  <2>2. CASE DeploymentOf[m] = d
    <3>1. chain[m] # "active"
      BY <1>1, <2>2 DEF HandlerInv, Leaving, Told
    <3> QED BY <1>3, <2>2, <3>1, SMTT(30)
  <2>3. CASE DeploymentOf[m] # d
    <3>1. held'[DeploymentOf[m]] = held[DeploymentOf[m]]
      BY <1>3, <2>3, ManifestHandlerAssumption
    <3> QED BY <2>1, <3>1, ZenonT(30)
  <2> QED BY <2>2, <2>3
<1> QED BY <1>4, <1>6, <1>7, <1>8, <1>9, <1>10 DEF HandlerInv

\* The steps after which the handler does not run, or nothing the invariant speaks of has changed.
LEMMA OthersKeep ==
    ASSUME HandlerInv, UNCHANGED <<events, managers, held, twice, late, chain, announced, over>>,
           \/ UNCHANGED <<svc, phase>>
           \/ svc \in {"starting", "running", "draining"} /\ svc' \in {"failed", "draining", "done"} /\ phase' = phase
           \/ \E d \in Deployments :
                  svc = "draining" /\ svc' = svc /\ phase[d] = "loop" /\ phase' = [phase EXCEPT ![d] = "leaving"]
    PROVE  HandlerInv'
<1>1. HandlerTypes
  BY DEF HandlerInv
<1>2. HandlerTypes'
  BY <1>1, Zenon DEF HandlerTypes
<1>3. \A x : Pending(x)' <=> Pending(x)
  BY DEF Pending
<1>4. Told'
  BY <1>3, Zenon DEF HandlerInv, Told
<1>5. Belong'
  BY DEF HandlerInv, Belong
<1>6. Managed'
  BY <1>1 DEF HandlerInv, HandlerTypes, Managed
<1>7. (svc' = svc /\ phase' = phase) \/ svc' \notin {"starting", "running", "panicked"}
  OBVIOUS
<1>8. Ordered'
  BY <1>7, Zenon DEF HandlerInv, Ordered
<1>9. Leaving'
  BY <1>7 DEF HandlerInv, Leaving
<1>10. Holds'
  BY <1>3, <1>7, Zenon DEF HandlerInv, Holds
<1>11. PanicsOnlyIfTwice'
  BY <1>7 DEF HandlerInv, PanicsOnlyIfTwice
<1> QED BY <1>2, <1>4, <1>5, <1>6, <1>8, <1>9, <1>10, <1>11 DEF HandlerInv

\* The invariant says what HoldsActive says.
LEMMA InvHolds == HandlerInv => HoldsActive
<1> SUFFICES ASSUME HandlerInv PROVE HoldsActive
  OBVIOUS
<1>1. ASSUME NEW l \in Leases
      PROVE  (Unread("won", l) <=> Pending(Won(l))) /\ (Unread("closed", l) <=> Pending(Closed(l)))
  <2>1. \A i \in DOMAIN events : events[i] \in HandlerEvents
    BY DEF HandlerInv, HandlerTypes
  <2>2. ASSUME NEW i \in DOMAIN events
        PROVE  /\ events[i].type = "won" /\ events[i].lease = l <=> events[i] = Won(l)
               /\ events[i].type = "closed" /\ events[i].lease = l <=> events[i] = Closed(l)
    <3>1. Won(l).type = "won" /\ Won(l).lease = l /\ Closed(l).type = "closed" /\ Closed(l).lease = l
      BY DEF Won, Closed
    <3> QED BY <2>1, <3>1, EventKinds, Zenon
  <2> QED BY <2>2 DEF Unread, Pending
<1> QED BY <1>1, Zenon DEF HandlerInv, Holds, HoldsActive

-----------------------------------------------------------------------------
(* Induction *)

LOCAL INSTANCE WellFoundedInduction

\* A set of natural numbers has a least element.
LEMMA LeastNat ==
    ASSUME NEW T, T \subseteq Nat, T # {}
    PROVE  \E n \in T : \A m \in T : n <= m
<1> DEFINE R == {ss \in Nat \X Nat : ss[1] < ss[2]}
<1>1. IsWellFoundedOn(R, Nat)
  BY NatLessThanWellFounded DEF OpToRel
<1>2. \A m, n \in Nat : m < n => <<m, n>> \in R
  OBVIOUS
<1> HIDE DEF R
<1>3. PICK x \in T : \A y \in T : ~(<<y, x>> \in R)
  BY <1>1, WFMin, Zenon
<1>4. ASSUME NEW y \in T PROVE x <= y
  <2>1. x \in Nat /\ y \in Nat /\ ~(y < x)
    BY <1>2, <1>3, Zenon
  <2> QED BY <2>1
<1> QED BY <1>3, <1>4

\* What holds of 0, and of k + 1 if it holds of k < n, holds up to n.
LEMMA UpTo ==
    ASSUME NEW n \in Nat, NEW S, 0 \in S, \A k \in 0 .. n : k < n /\ k \in S => k + 1 \in S
    PROVE  \A k \in 0 .. n : k \in S
<1> DEFINE T == {k \in 0 .. n : k \notin S}
<1> SUFFICES ASSUME T # {} PROVE FALSE
  OBVIOUS
<1>0. T \subseteq Nat
  OBVIOUS
<1>1. PICK k \in T : \A m \in T : k <= m
  <2> HIDE DEF T
  <2> QED BY <1>0, LeastNat, Zenon
<1>2. k \in 1 .. n /\ k - 1 \in 0 .. n /\ k - 1 < n
  BY <1>1
<1>3. k - 1 \in S
  BY <1>1, <1>2
<1> QED BY <1>1, <1>2, <1>3

\* The largest element of a set of places.
LEMMA MaxOf ==
    ASSUME NEW n \in Nat, NEW s, s \subseteq 1 .. n, s # {}
    PROVE  Max(s) \in s /\ \A x \in s : x <= Max(s)
<1> DEFINE B == {m \in Nat : \A x \in s : x <= m}
<1>1. n \in B /\ B \subseteq Nat
  OBVIOUS
<1>2. PICK m \in B : \A k \in B : m <= k
  <2> HIDE DEF B
  <2> QED BY <1>1, LeastNat, Zenon
<1>3. m \in s
  <2> SUFFICES ASSUME m \notin s PROVE FALSE
    OBVIOUS
  <2>1. \A x \in s : x \in Nat /\ x <= m - 1 /\ x >= 1
    <3> TAKE x \in s
    <3>1. x \in 1 .. n /\ x <= m /\ m \in Nat /\ x # m
      BY <1>2
    <3> QED BY <3>1
  <2>2. m - 1 \in B
    <3>1. PICK x \in s : TRUE
      BY Zenon
    <3>2. m - 1 \in Nat
      BY <1>2, <2>1, <3>1
    <3> QED BY <2>1, <3>2
  <2> QED BY <1>2, <2>2
<1>4. \E x \in s : \A y \in s : x >= y
  BY <1>2, <1>3
<1> QED BY <1>4, Zenon DEF Max

-----------------------------------------------------------------------------
(* Folds *)

\* The table of a fold with step F (F[<<v, i>>] is the result of step i from v) over the sets
\* of places, which folds the largest place last.
IsTable(f, n, b, F) ==
    f = [s \in SUBSET (1 .. n) |-> IF s = {} THEN b ELSE F[<<f[s \ {Max(s)}], Max(s)>>]]

\* There is a table for the places up to k + 1, if there is one up to k.
LEMMA TableGrows ==
    ASSUME NEW V, NEW n \in Nat, NEW b \in V, NEW F \in [V \X (1 .. n) -> V],
           NEW k \in 0 .. n, k < n,
           NEW f \in [SUBSET (1 .. k) -> V], IsTable(f, k, b, F)
    PROVE  \E g \in [SUBSET (1 .. k + 1) -> V] : IsTable(g, k + 1, b, F)
<1> DEFINE g == [s \in SUBSET (1 .. k + 1) |->
                    IF k + 1 \in s THEN F[<<f[s \ {k + 1}], k + 1>>] ELSE f[s]]
<1>1. \A s \in SUBSET (1 .. k + 1) : s \ {k + 1} \in SUBSET (1 .. k) /\ (k + 1 \notin s => s \in SUBSET (1 .. k))
  BY DEF IsTable
<1>2. g \in [SUBSET (1 .. k + 1) -> V]
  <2> SUFFICES ASSUME NEW s \in SUBSET (1 .. k + 1)
               PROVE  (IF k + 1 \in s THEN F[<<f[s \ {k + 1}], k + 1>>] ELSE f[s]) \in V
    BY Zenon
  <2>1. f[s \ {k + 1}] \in V /\ (k + 1 \notin s => f[s] \in V)
    BY <1>1
  <2>2. k + 1 \in 1 .. n
    BY SMTT(30)
  <2> QED BY <2>1, <2>2
<1>3. ASSUME NEW s \in SUBSET (1 .. k + 1)
      PROVE  g[s] = IF s = {} THEN b ELSE F[<<g[s \ {Max(s)}], Max(s)>>]
  <2>1. CASE k + 1 \in s
    <3>1. Max(s) = k + 1
      <4> HIDE DEF g
      <4>1. k + 1 \in Nat /\ s \subseteq 1 .. k + 1 /\ s # {}
        BY <2>1
      <4>2. Max(s) \in s /\ \A x \in s : x <= Max(s)
        BY <4>1, MaxOf, Zenon
      <4>3. Max(s) \in 1 .. k + 1 /\ k + 1 <= Max(s)
        BY <2>1, <4>2, Zenon
      <4> QED BY <4>3
    <3>2. g[s \ {k + 1}] = f[s \ {k + 1}] /\ g[s] = F[<<f[s \ {k + 1}], k + 1>>]
      BY <2>1
    <3> QED BY <2>1, <3>1, <3>2
  <2>2. CASE k + 1 \notin s /\ s # {}
    <3>1. s \in SUBSET (1 .. k) /\ s \ {Max(s)} \in SUBSET (1 .. k) /\ k + 1 \notin s \ {Max(s)}
      BY <1>1, <2>2, Zenon
    <3>2. g[s] = f[s] /\ g[s \ {Max(s)}] = f[s \ {Max(s)}]
      BY <2>2, <3>1
    <3>3. f[s] = F[<<f[s \ {Max(s)}], Max(s)>>]
      BY <2>2, <3>1, Zenon DEF IsTable
    <3> QED BY <2>2, <3>2, <3>3, Zenon
  <2>3. CASE s = {}
    <3>1. f[{}] = b
      BY DEF IsTable
    <3> QED BY <2>3, <3>1
  <2> QED BY <2>1, <2>2, <2>3, SMTT(30)
<1>4. IsTable(g, k + 1, b, F)
  <2> HIDE DEF g
  <2> QED BY <1>2, <1>3, Zenon DEF IsTable
<1> QED BY <1>2, <1>4, Zenon

\* The table for every place of the sequence.
LEMMA TableExists ==
    ASSUME NEW V, NEW n \in Nat, NEW b \in V, NEW F \in [V \X (1 .. n) -> V]
    PROVE  \E f \in [SUBSET (1 .. n) -> V] : IsTable(f, n, b, F)
<1> DEFINE S == {k \in 0 .. n : \E f \in [SUBSET (1 .. k) -> V] : IsTable(f, k, b, F)}
<1>1. 0 \in S
  <2> DEFINE f == [s \in SUBSET (1 .. 0) |-> b]
  <2>1. 1 .. 0 = {}
    OBVIOUS
  <2>2. f \in [SUBSET (1 .. 0) -> V] /\ \A s \in SUBSET (1 .. 0) : s = {}
    BY <2>1
  <2>3. IsTable(f, 0, b, F)
    BY <2>2, Zenon DEF IsTable
  <2> QED BY <2>2, <2>3
<1>2. ASSUME NEW k \in 0 .. n, k < n, k \in S PROVE k + 1 \in S
  <2>1. PICK f \in [SUBSET (1 .. k) -> V] : IsTable(f, k, b, F)
    BY <1>2, Zenon
  <2>2. \E g \in [SUBSET (1 .. k + 1) -> V] : IsTable(g, k + 1, b, F)
    BY <1>2, <2>1, TableGrows, Zenon
  <2>3. k + 1 \in 0 .. n
    BY <1>2
  <2> QED BY <2>2, <2>3, Zenon
<1>3. n \in S
  <2> HIDE DEF S
  <2>1. n \in 0 .. n
    OBVIOUS
  <2> QED BY <1>1, <1>2, <2>1, UpTo, Zenon
<1> QED BY <1>3, Zenon

\* f holds b for no place and follows F, where what it holds for the places before lies in V.
Follows(f, n, b, F, V) ==
    /\ f[{}] = b
    /\ \A s \in SUBSET (1 .. n) :
           s # {} /\ f[s \ {Max(s)}] \in V => f[s] = F[<<f[s \ {Max(s)}], Max(s)>>]

\* g holds the results of the fold after k places, step by step, and ends with r.
Steps(g, n, b, F, r) == g[0] = b /\ g[n] = r /\ \A k \in 1 .. n : g[k] = F[<<g[k - 1], k>>]

\* The table of a fold, read for the first k places, holds its results step by step.
LEMMA FoldSteps ==
    ASSUME NEW V, NEW n \in Nat, NEW b \in V, NEW F \in [V \X (1 .. n) -> V],
           NEW f, Follows(f, n, b, F, V)
    PROVE  \E g \in [0 .. n -> V] : Steps(g, n, b, F, f[1 .. n])
<1> USE DEF Follows
<1> DEFINE At(j) == f[1 .. j]
           S == {j \in 0 .. n : At(j) \in V}
           g == [j \in 0 .. n |-> At(j)]
<1>3. At(0) = b
  <2>1. 1 .. 0 = {}
    OBVIOUS
  <2> QED BY <2>1, Zenon
<1>4. ASSUME NEW k \in 1 .. n, At(k - 1) \in V PROVE At(k) = F[<<At(k - 1), k>>]
  <2>1. 1 .. k \in SUBSET (1 .. n) /\ 1 .. k # {} /\ k \in Nat
    OBVIOUS
  <2>2. Max(1 .. k) = k
    <3>1. Max(1 .. k) \in 1 .. k /\ \A x \in 1 .. k : x <= Max(1 .. k)
      BY <2>1, MaxOf, Zenon
    <3>2. k \in 1 .. k
      OBVIOUS
    <3> QED BY <3>1, <3>2
  <2>3. (1 .. k) \ {k} = 1 .. k - 1
    OBVIOUS
  <2>4. f[(1 .. k) \ {Max(1 .. k)}] \in V
    BY <1>4, <2>2, <2>3, Zenon
  <2>5. f[1 .. k] = F[<<f[(1 .. k) \ {Max(1 .. k)}], Max(1 .. k)>>]
    BY <2>1, <2>4, Zenon
  <2> QED BY <2>2, <2>3, <2>5, Zenon
<1> HIDE DEF At
<1>5. 0 \in S
  BY <1>3
<1>6. ASSUME NEW k \in 0 .. n, k < n, k \in S PROVE k + 1 \in S
  <2>1. k + 1 \in 1 .. n /\ (k + 1) - 1 = k /\ k + 1 \in 0 .. n
    BY <1>6
  <2>2. At(k) \in V
    BY <1>6
  <2>3. At(k + 1) = F[<<At(k), k + 1>>]
    BY <1>4, <2>1, <2>2
  <2> QED BY <2>1, <2>2, <2>3
<1>7. \A j \in 0 .. n : j \in S
  <2> HIDE DEF S
  <2> QED BY <1>5, <1>6, UpTo, Zenon
<1>8. g \in [0 .. n -> V] /\ g[0] = b /\ g[n] = At(n)
  BY <1>3, <1>7
<1>9. ASSUME NEW k \in 1 .. n PROVE g[k] = F[<<g[k - 1], k>>]
  <2>1. k - 1 \in 0 .. n /\ k \in 0 .. n
    OBVIOUS
  <2>2. g[k] = At(k) /\ g[k - 1] = At(k - 1) /\ At(k - 1) \in V
    BY <1>7, <2>1
  <2> QED BY <1>4, <2>2, Zenon
<1> QED BY <1>8, <1>9, Zenon DEF At, Steps

-----------------------------------------------------------------------------
(* The removal of a lease *)

\* The slice ls without its place p.
Without(ls, p) == [j \in 1 .. Len(ls) - 1 |-> IF p <= j THEN ls[j + 1] ELSE ls[j]]

\* The array behind the slice once its place p has been overwritten.
Shifted(ls, p) == [j \in 1 .. Len(ls) |-> IF p <= j /\ j < Len(ls) THEN ls[j + 1] ELSE ls[j]]

\* A step of the loop works on the array and on a length within it.
LEMMA RangeStepType ==
    ASSUME NEW ls \in Seq(Leases), NEW l \in Leases, NEW s \in Slices(ls), NEW i \in 1 .. Len(ls)
    PROVE  RangeStep(s, i, l) \in Slices(ls)
<1> DEFINE n == Len(ls)
           a == [j \in DOMAIN s.arr |-> IF i <= j /\ j < s.len THEN s.arr[j + 1] ELSE s.arr[j]]
<1>1. n \in Nat /\ s.arr \in [1 .. n -> Leases] /\ s.len \in 0 .. n /\ s.ok \in BOOLEAN
  BY DEF Slices
<1>2. a \in [1 .. n -> Leases]
  BY <1>1
<1>3. i <= s.len => s.len - 1 \in 0 .. n
  BY <1>1
<1>4. [arr |-> s.arr, len |-> s.len, ok |-> FALSE] \in Slices(ls)
  BY <1>1 DEF Slices
<1>5. i <= s.len => [arr |-> a, len |-> s.len - 1, ok |-> TRUE] \in Slices(ls)
  BY <1>2, <1>3 DEF Slices
<1>6. i > s.len \/ i <= s.len
  BY <1>1
<1>7. RangeStep(s, i, l) = IF ~s.ok \/ s.arr[i] # l THEN s
                           ELSE IF i > s.len THEN [arr |-> s.arr, len |-> s.len, ok |-> FALSE]
                           ELSE [arr |-> a, len |-> s.len - 1, ok |-> TRUE]
  BY Zenon DEF RangeStep
<1> HIDE DEF a
<1> QED BY <1>4, <1>5, <1>6, <1>7, Zenon

\* removeLease goes through the places of the slice in turn.
LEMMA RemoveSteps ==
    ASSUME NEW ls \in Seq(Leases), NEW l \in Leases
    PROVE  \E g \in [0 .. Len(ls) -> Slices(ls)] :
               /\ g[0] = [arr |-> ls, len |-> Len(ls), ok |-> TRUE]
               /\ \A k \in 1 .. Len(ls) : g[k] = RangeStep(g[k - 1], k, l)
               /\ removeLease(ls, l) = g[Len(ls)]
<1> DEFINE n == Len(ls)
           V == Slices(ls)
           b == [arr |-> ls, len |-> Len(ls), ok |-> TRUE]
           F == [p \in V \X (1 .. n) |-> RangeStep(p[1], p[2], l)]
           Rec(f) == f = [s \in SUBSET DOMAIN ls |->
                            IF s = {} THEN b ELSE RangeStep(f[s \ {Max(s)}], Max(s), l)]
<1>1. n \in Nat /\ DOMAIN ls = 1 .. n
  OBVIOUS
<1>2. b \in V
  BY <1>1 DEF Slices
<1>3. F \in [V \X (1 .. n) -> V]
  BY RangeStepType
<1>4. \A v \in V, i \in 1 .. n : F[<<v, i>>] = RangeStep(v, i, l)
  <2> HIDE DEF V, n
  <2> QED OBVIOUS
<1>5. removeLease(ls, l) = (CHOOSE f : Rec(f))[DOMAIN ls]
  BY Zenon DEF MapThenFoldSet, removeLease
<1>6. \A s \in SUBSET (1 .. n) : s # {} => Max(s) \in 1 .. n
  <2> TAKE s \in SUBSET (1 .. n)
  <2> HAVE s # {}
  <2>1. Max(s) \in s
    BY <1>1, MaxOf, Zenon
  <2> QED BY <2>1, Zenon
<1> HIDE DEF F, V, b, n
<1>7. \E f : Rec(f)
  <2>1. PICK f \in [SUBSET (1 .. n) -> V] : IsTable(f, n, b, F)
    BY <1>1, <1>2, <1>3, TableExists, Zenon
  <2>2. ASSUME NEW s \in SUBSET (1 .. n)
        PROVE  f[s] = IF s = {} THEN b ELSE RangeStep(f[s \ {Max(s)}], Max(s), l)
    <3>1. f[s] = IF s = {} THEN b ELSE F[<<f[s \ {Max(s)}], Max(s)>>]
      BY <2>1, Zenon DEF IsTable
    <3>2. f[s \ {Max(s)}] \in V
      BY Zenon
    <3> QED BY <1>4, <1>6, <3>1, <3>2, Zenon
  <2>3. Rec(f)
    BY <1>1, <2>2, Zenon
  <2> QED BY <2>3, Zenon
<1>8. PICK f : Rec(f) /\ removeLease(ls, l) = f[1 .. n]
  BY <1>1, <1>5, <1>7, Zenon
<1>9. f[{}] = b
  BY <1>8, Zenon
<1>10. \A s \in SUBSET (1 .. n) :
           s # {} /\ f[s \ {Max(s)}] \in V => f[s] = F[<<f[s \ {Max(s)}], Max(s)>>]
  <2> TAKE s \in SUBSET (1 .. n)
  <2> HAVE s # {} /\ f[s \ {Max(s)}] \in V
  <2>1. f[s] = RangeStep(f[s \ {Max(s)}], Max(s), l)
    BY <1>1, <1>8, Zenon
  <2> QED BY <1>4, <1>6, <2>1, Zenon
<1>11. PICK g \in [0 .. n -> V] : Steps(g, n, b, F, f[1 .. n])
  <2>1. Follows(f, n, b, F, V)
    BY <1>9, <1>10, Zenon DEF Follows
  <2>2. n \in Nat
    BY <1>1, Zenon
  <2> QED BY <1>2, <1>3, <2>1, <2>2, FoldSteps, Zenon
<1>12. \A k \in 1 .. n : g[k - 1] \in V
  BY <1>1
<1>13. \A k \in 1 .. n : g[k] = RangeStep(g[k - 1], k, l)
  BY <1>4, <1>11, <1>12, Zenon DEF Steps
<1> QED BY <1>8, <1>11, <1>13, Zenon DEF n, V, b, Steps

\* A lease that is in the slice once is taken out of it, and the loop does not panic.
LEMMA RemoveLease ==
    ASSUME NEW ls \in Seq(Leases), Distinct(ls), NEW l \in Leases
    PROVE  /\ removeLease(ls, l).ok
           /\ LET new == SubSeq(removeLease(ls, l).arr, 1, removeLease(ls, l).len)
              IN  new \in Seq(Leases) /\ Distinct(new) /\ Range(new) = Range(ls) \ {l}
<1> DEFINE n == Len(ls)
<1>1. n \in Nat /\ ls \in [1 .. n -> Leases] /\ DOMAIN ls = 1 .. n
  OBVIOUS
<1>2. PICK g \in [0 .. n -> Slices(ls)] :
          /\ g[0] = [arr |-> ls, len |-> n, ok |-> TRUE]
          /\ \A k \in 1 .. n : g[k] = RangeStep(g[k - 1], k, l)
          /\ removeLease(ls, l) = g[n]
  BY RemoveSteps, Zenon
<1>3. PICK b : b = [arr |-> ls, len |-> n, ok |-> TRUE]
  BY Zenon
<1>4. b.arr = ls /\ b.len = n /\ b.ok /\ g[0] = b /\ 0 \in 0 .. n /\ n \in 0 .. n
  <2>1. b.arr = ls /\ b.len = n /\ b.ok
    BY <1>3
  <2>2. 0 \in 0 .. n /\ n \in 0 .. n
    BY <1>1
  <2> QED BY <1>2, <1>3, <2>1, <2>2, ZenonT(30)
<1>5. ASSUME NEW k \in 0 .. n, k < n
      PROVE  k + 1 \in 1 .. n /\ k + 1 \in 0 .. n /\ g[k + 1] = RangeStep(g[k], k + 1, l)
  <2>1. k + 1 \in 1 .. n /\ (k + 1) - 1 = k /\ k + 1 \in 0 .. n
    BY <1>1, <1>5
  <2> QED BY <1>2, <2>1, Zenon
<1>6. CASE \A p \in 1 .. n : ls[p] # l
  <2> DEFINE S == {k \in 0 .. n : g[k] = b}
  <2>1. 0 \in S
    BY <1>4, Zenon
  <2>2. ASSUME NEW k \in 0 .. n, k < n, k \in S PROVE k + 1 \in S
    <3>1. g[k + 1] = RangeStep(b, k + 1, l) /\ b.arr[k + 1] # l
      BY <1>4, <1>5, <1>6, <2>2, Zenon
    <3>2. RangeStep(b, k + 1, l) = b
      BY <3>1, Zenon DEF RangeStep
    <3> QED BY <1>5, <2>2, <3>1, <3>2, Zenon
  <2>3. n \in S
    <3> HIDE DEF S
    <3> QED BY <1>1, <1>4, <2>1, <2>2, UpTo, Zenon
  <2>4. removeLease(ls, l) = b
    BY <1>2, <2>3, Zenon
  <2>5. SubSeq(ls, 1, n) = ls
    OBVIOUS
  <2>6. Range(ls) = Range(ls) \ {l}
    <3>1. l \notin Range(ls)
      BY <1>1, <1>6, Zenon DEF Range
    <3> QED BY <3>1, Zenon
  <2> QED BY <1>4, <2>4, <2>5, <2>6, Zenon
<1>7. ASSUME NEW p \in 1 .. n, ls[p] = l
      PROVE  removeLease(ls, l).arr = Shifted(ls, p) /\ removeLease(ls, l).len = n - 1 /\ removeLease(ls, l).ok
  <2>1. PICK c : c = [arr |-> Shifted(ls, p), len |-> n - 1, ok |-> TRUE]
    BY Zenon
  <2>2. c.arr = Shifted(ls, p) /\ c.len = n - 1 /\ c.ok
    BY <2>1
  <2> DEFINE S == {k \in 0 .. n : (k < p => g[k] = b) /\ (~(k < p) => g[k] = c)}
  <2>3. 0 \in S
    <3>1. 0 < p
      BY <1>1
    <3> QED BY <1>4, <3>1, Zenon
  <2>4. ASSUME NEW k \in 0 .. n, k < n, k \in S PROVE k + 1 \in S
    <3>1. CASE k + 1 < p
      <4>1. k < p /\ k + 1 # p
        BY <1>1, <3>1
      <4>2. g[k + 1] = RangeStep(b, k + 1, l) /\ b.arr[k + 1] # l
        <5>1. k + 1 \in DOMAIN ls /\ p \in DOMAIN ls /\ g[k + 1] = RangeStep(g[k], k + 1, l) /\ g[k] = b
          BY <1>1, <1>5, <2>4, <4>1, Zenon
        <5>2. ls[k + 1] # l
          BY <1>7, <4>1, <5>1, Zenon DEF Distinct
        <5> QED BY <1>4, <5>1, <5>2, Zenon
      <4>3. RangeStep(b, k + 1, l) = b
        BY <4>2, Zenon DEF RangeStep
      <4> QED BY <1>5, <2>4, <3>1, <4>2, <4>3, Zenon
    <3>2. CASE k + 1 = p
      <4>1. k < p /\ ~(p > n) /\ ~(k + 1 < p)
        BY <1>1, <3>2
      <4>2. g[k + 1] = RangeStep(b, p, l) /\ b.arr[p] = l
        BY <1>4, <1>5, <1>7, <2>4, <3>2, <4>1, Zenon
      <4>3. RangeStep(b, p, l) = c
        BY <1>1, <1>4, <2>1, <4>1, <4>2, Zenon DEF RangeStep, Shifted
      <4> QED BY <1>5, <2>4, <4>1, <4>2, <4>3, Zenon
    <3>3. CASE k + 1 > p
      <4>1. ~(k < p) /\ ~(k + 1 < p)
        BY <1>1, <3>3
      <4>2. c.arr[k + 1] # l
        <5>1. k + 1 \in 1 .. n /\ k + 1 # p /\ p <= k + 1
          BY <1>1, <2>4, <3>3
        <5>2. CASE k + 1 < n
          <6>1. (k + 1) + 1 \in 1 .. n /\ (k + 1) + 1 # p
            BY <1>1, <3>3, <5>2
          <6>2. Shifted(ls, p)[k + 1] = ls[(k + 1) + 1]
            BY <5>1, <5>2, Zenon DEF Shifted
          <6> QED BY <1>1, <1>7, <2>2, <6>1, <6>2, Zenon DEF Distinct
        <5>3. CASE ~(k + 1 < n)
          <6>1. Shifted(ls, p)[k + 1] = ls[k + 1]
            BY <5>1, <5>3, Zenon DEF Shifted
          <6> QED BY <1>1, <1>7, <2>2, <5>1, <6>1, Zenon DEF Distinct
        <5> QED BY <5>2, <5>3, Zenon
      <4>3. g[k + 1] = RangeStep(c, k + 1, l)
        BY <1>5, <2>4, <4>1, Zenon
      <4>4. RangeStep(c, k + 1, l) = c
        BY <4>2, Zenon DEF RangeStep
      <4> QED BY <1>5, <2>4, <4>1, <4>3, <4>4, Zenon
    <3>4. k + 1 < p \/ k + 1 = p \/ k + 1 > p
      BY <1>1
    <3> QED BY <3>1, <3>2, <3>3, <3>4, Zenon
  <2>5. n \in S
    <3> HIDE DEF S
    <3> QED BY <1>1, <1>4, <2>3, <2>4, UpTo, Zenon
  <2>6. ~(n < p)
    BY <1>1
  <2>7. removeLease(ls, l) = c
    BY <1>2, <2>5, <2>6, Zenon
  <2> QED BY <2>2, <2>7, Zenon
<1>8. ASSUME NEW p \in 1 .. n, ls[p] = l
      PROVE  /\ SubSeq(Shifted(ls, p), 1, n - 1) = Without(ls, p)
             /\ Without(ls, p) \in Seq(Leases) /\ Distinct(Without(ls, p))
             /\ Range(Without(ls, p)) = Range(ls) \ {l}
  <2>1. Shifted(ls, p) \in [1 .. n -> Leases]
    BY <1>1 DEF Shifted
  <2>2. Without(ls, p) \in [1 .. n - 1 -> Leases] /\ n - 1 \in Nat
    BY <1>1 DEF Without
  <2>3. SubSeq(Shifted(ls, p), 1, n - 1) = Without(ls, p)
    BY <1>1, <2>1, <2>2 DEF Shifted, Without
  <2>4. Distinct(Without(ls, p))
    BY <1>1 DEF Without, Distinct
  <2>5. ASSUME NEW j \in 1 .. n - 1 PROVE Without(ls, p)[j] \in Range(ls) \ {l}
    BY <1>1, <1>8 DEF Without, Range, Distinct
  <2>6. ASSUME NEW j \in 1 .. n, ls[j] # l PROVE ls[j] \in Range(Without(ls, p))
    <3>1. CASE j < p
      <4>1. j \in 1 .. n - 1 /\ Without(ls, p)[j] = ls[j]
        BY <1>1, <3>1 DEF Without
      <4> QED BY <2>2, <4>1 DEF Range
    <3>2. CASE j > p
      <4>1. j - 1 \in 1 .. n - 1 /\ Without(ls, p)[j - 1] = ls[j]
        BY <1>1, <3>2 DEF Without
      <4> QED BY <2>2, <4>1 DEF Range
    <3>3. j < p \/ j > p
      <4>1. j # p
        BY <1>8, <2>6, Zenon
      <4> QED BY <1>1, <4>1
    <3> QED BY <3>1, <3>2, <3>3, ZenonT(30)
  <2>7. Range(Without(ls, p)) = Range(ls) \ {l}
    BY <1>1, <2>2, <2>5, <2>6 DEF Range
  <2>8. Without(ls, p) \in Seq(Leases)
    BY <2>2, SMTT(30)
  <2> QED BY <2>3, <2>4, <2>7, <2>8, Zenon
<1>9. CASE \E p \in 1 .. n : ls[p] = l
  <2>1. PICK p \in 1 .. n : ls[p] = l
    BY <1>9
  <2>2. removeLease(ls, l).ok /\ removeLease(ls, l).arr = Shifted(ls, p) /\ removeLease(ls, l).len = n - 1
    BY <1>7, <2>1, Zenon
  <2> QED BY <1>8, <2>1, <2>2, Zenon
<1> QED BY <1>6, <1>9, Zenon

\* So the loop does what Removes says.
LEMMA RemoveLoop ==
    ASSUME NEW ls \in Seq(Leases), NEW l \in Leases
    PROVE  Removes(ls, l)
<1>1. removeLease(ls, l) \in Slices(ls)
  <2>1. PICK g \in [0 .. Len(ls) -> Slices(ls)] : removeLease(ls, l) = g[Len(ls)]
    BY RemoveSteps, Zenon
  <2>2. Len(ls) \in 0 .. Len(ls)
    OBVIOUS
  <2> QED BY <2>1, <2>2
<1> QED BY <1>1, RemoveLease, Zenon DEF Removes

-----------------------------------------------------------------------------
(* The leases of the start *)

\* One more lease is given out.
LEMMA GiveOne ==
    ASSUME NEW x, NEW S \in SUBSET Leases, GivenOut(x, S), NEW l \in Leases, l \notin S
    PROVE  GivenOut(handleLease(x, l), S \cup {l})
<1> DEFINE d == DeploymentOf[l]
           z == handleLease(x, l)
<1>1. d \in Deployments /\ x \in HandlerStates /\ (d \in x.managers <=> x.phase[d] # "none")
      /\ x.phase[d] # "leaving"
  BY ManifestHandlerAssumption DEF GivenOut
<1>2. /\ z \in HandlerStates
      /\ z.managers = x.managers \cup {d} /\ z.phase = [x.phase EXCEPT ![d] = "loop"]
      /\ z.held = [x.held EXCEPT ![d] = Append(Before(x, d), l)]
      /\ z.twice <=> (x.twice \/ l \in Range(Before(x, d)))
  BY <1>1, HandleLease, Zenon
<1>3. x.phase \in [Deployments -> {"none", "loop", "leaving"}] /\ x.held \in [Deployments -> Seq(Leases)]
  BY <1>1, SMTT(30) DEF HandlerStates
<1>4. Before(x, d) = x.held[d]
  BY <1>1, SMTT(30) DEF Before, GivenOut
<1>5. x.held[d] \in Seq(Leases) /\ Distinct(x.held[d]) /\ Range(x.held[d]) = {m \in S : DeploymentOf[m] = d}
  BY <1>1, <1>3 DEF GivenOut
<1>6. l \notin Range(x.held[d])
  BY <1>5, Zenon
<1>7. Distinct(Append(x.held[d], l)) /\ Range(Append(x.held[d], l)) = Range(x.held[d]) \cup {l}
  BY <1>5, <1>6, AppendNew, Zenon
<1> HIDE DEF z
<1>8. z.phase[d] = "loop" /\ z.held[d] = Append(x.held[d], l)
      /\ \A e \in Deployments : e # d => z.phase[e] = x.phase[e] /\ z.held[e] = x.held[e]
  <2>1. ASSUME NEW f, NEW D, NEW V, NEW v, f \in [D -> V], NEW c \in D
        PROVE  /\ [f EXCEPT ![c] = v][c] = v
               /\ \A e \in D : e # c => [f EXCEPT ![c] = v][e] = f[e]
    BY <2>1, SMTT(30)
  <2>2. z.phase[d] = "loop" /\ \A e \in Deployments : e # d => z.phase[e] = x.phase[e]
    BY <1>1, <1>2, <1>3, <2>1, SMTT(20)
  <2>3. z.held[d] = Append(x.held[d], l) /\ \A e \in Deployments : e # d => z.held[e] = x.held[e]
    BY <1>1, <1>2, <1>3, <1>4, <2>1, SMTT(20)
  <2> QED BY <2>2, <2>3, Zenon
<1>9. ~z.twice
  BY <1>2, <1>4, <1>6, ZenonT(30) DEF GivenOut
<1>10. ASSUME NEW e \in Deployments
       PROVE  /\ e \in z.managers <=> z.phase[e] # "none"
              /\ z.phase[e] # "leaving"
              /\ z.phase[e] = "none" => z.held[e] = << >>
              /\ Distinct(z.held[e]) /\ Range(z.held[e]) = {m \in S \cup {l} : DeploymentOf[m] = e}
  <2>1. CASE e = d
    <3>1. Range(z.held[d]) = {m \in S \cup {l} : DeploymentOf[m] = d}
      <4>1. Range(z.held[d]) = {m \in S : DeploymentOf[m] = d} \cup {l}
        BY <1>5, <1>7, <1>8, Zenon
      <4> QED BY <4>1, Zenon
    <3> QED BY <1>2, <1>7, <1>8, <2>1, <3>1, Zenon
  <2>2. CASE e # d
    <3>1. {m \in S \cup {l} : DeploymentOf[m] = e} = {m \in S : DeploymentOf[m] = e}
      BY <2>2, Zenon
    <3>2. e \in z.managers <=> e \in x.managers
      BY <1>2, <2>2, Zenon
    <3> QED BY <1>8, <2>2, <3>1, <3>2, ZenonT(30) DEF GivenOut
  <2> QED BY <2>1, <2>2
<1> QED BY <1>2, <1>9, <1>10, ZenonT(30) DEF GivenOut, z

\* The fold of handleLease over leases goes through them in turn.
Gives(g, x, ls, r) ==
    g[0] = x /\ g[Len(ls)] = r /\ \A k \in 1 .. Len(ls) : g[k] = handleLease(g[k - 1], ls[k])

LEMMA GiveSteps ==
    ASSUME NEW ls \in Seq(Leases), NEW V, NEW x \in V,
           \A y \in V, l \in Leases : handleLease(y, l) \in V
    PROVE  \E g \in [0 .. Len(ls) -> V] : Gives(g, x, ls, handleLeases(x, ls))
<1> DEFINE n == Len(ls)
           F == [p \in V \X (1 .. n) |-> handleLease(p[1], ls[p[2]])]
           Rec(f) == f = [s \in SUBSET DOMAIN ls |->
                            IF s = {} THEN x ELSE handleLease(f[s \ {Max(s)}], ls[Max(s)])]
<1>1. n \in Nat /\ DOMAIN ls = 1 .. n /\ \A i \in 1 .. n : ls[i] \in Leases
  OBVIOUS
<1>2. handleLeases(x, ls) = (CHOOSE f : Rec(f))[DOMAIN ls]
  BY Zenon DEF handleLeases, MapThenFoldSet
<1> HIDE DEF n
<1>3. \A v \in V, i \in 1 .. n : F[<<v, i>>] = handleLease(v, ls[i])
  OBVIOUS
<1>4. F \in [V \X (1 .. n) -> V]
  BY <1>1
<1>5. x \in V
  OBVIOUS
<1> HIDE DEF F
<1>6. \A s \in SUBSET (1 .. n) : s # {} => Max(s) \in 1 .. n
  <2> TAKE s \in SUBSET (1 .. n)
  <2> HAVE s # {}
  <2>1. Max(s) \in s
    BY <1>1, MaxOf, Zenon
  <2> QED BY <2>1, Zenon
<1>7. \E f : Rec(f)
  <2>1. PICK f \in [SUBSET (1 .. n) -> V] : IsTable(f, n, x, F)
    BY <1>1, <1>4, <1>5, TableExists, Zenon
  <2>2. ASSUME NEW s \in SUBSET (1 .. n)
        PROVE  f[s] = IF s = {} THEN x ELSE handleLease(f[s \ {Max(s)}], ls[Max(s)])
    <3>1. f[s] = IF s = {} THEN x ELSE F[<<f[s \ {Max(s)}], Max(s)>>]
      BY <2>1, Zenon DEF IsTable
    <3>2. f[s \ {Max(s)}] \in V
      BY Zenon
    <3> QED BY <1>3, <1>6, <3>1, <3>2, Zenon
  <2>3. Rec(f)
    BY <1>1, <2>2, Zenon
  <2> QED BY <2>3, Zenon
<1>8. PICK f : Rec(f) /\ handleLeases(x, ls) = f[1 .. n]
  BY <1>1, <1>2, <1>7, Zenon
<1>9. Follows(f, n, x, F, V)
  <2>1. f[{}] = x
    BY <1>8, Zenon
  <2>2. ASSUME NEW s \in SUBSET (1 .. n), s # {}, f[s \ {Max(s)}] \in V
        PROVE  f[s] = F[<<f[s \ {Max(s)}], Max(s)>>]
    <3>1. f[s] = handleLease(f[s \ {Max(s)}], ls[Max(s)])
      BY <1>1, <1>8, <2>2, Zenon
    <3> QED BY <1>3, <1>6, <2>2, <3>1, Zenon
  <2> QED BY <2>1, <2>2, Zenon DEF Follows
<1>10. PICK g \in [0 .. n -> V] : Steps(g, n, x, F, f[1 .. n])
  <2>1. n \in Nat
    BY <1>1, Zenon
  <2> QED BY <1>4, <1>5, <1>9, <2>1, FoldSteps, ZenonT(30)
<1>11. \A k \in 1 .. n : g[k - 1] \in V
  BY <1>1
<1>12. \A k \in 1 .. n : g[k] = handleLease(g[k - 1], ls[k])
  BY <1>3, <1>10, <1>11, Zenon DEF Steps
<1> QED BY <1>8, <1>10, <1>12, Zenon DEF n, Steps, Gives

\* So the leases of the start, each listed once, are with their managers afterwards.
LEMMA GiveAll ==
    ASSUME NEW ls \in Seq(Leases), Distinct(ls), NEW x, GivenOut(x, {})
    PROVE  GivenOut(handleLeases(x, ls), Range(ls))
<1> DEFINE n == Len(ls)
           V == {y \in HandlerStates : \A d \in Deployments : d \in y.managers <=> y.phase[d] # "none"}
<1>1. n \in Nat /\ DOMAIN ls = 1 .. n /\ \A i \in 1 .. n : ls[i] \in Leases
  OBVIOUS
<1>2. x \in V
  BY SMTT(30) DEF GivenOut
<1>3. ASSUME NEW y \in V, NEW l \in Leases PROVE handleLease(y, l) \in V
  <2> DEFINE d == DeploymentOf[l]
             z == handleLease(y, l)
  <2>1. d \in Deployments /\ y \in HandlerStates /\ (d \in y.managers <=> y.phase[d] # "none")
    BY ManifestHandlerAssumption
  <2>2. /\ z \in HandlerStates
        /\ y.phase[d] = "leaving" => z = y
        /\ y.phase[d] # "leaving" =>
            z.managers = y.managers \cup {d} /\ z.phase = [y.phase EXCEPT ![d] = "loop"]
    BY <2>1, HandleLease, ZenonT(30)
  <2> HIDE DEF z
  <2>3. y.phase \in [Deployments -> {"none", "loop", "leaving"}]
    BY <2>1, SMTT(30) DEF HandlerStates
  <2>4. \A e \in Deployments : e \in z.managers <=> z.phase[e] # "none"
    BY <2>1, <2>2, <2>3
  <2> QED BY <2>2, <2>4, SMTT(30) DEF z
<1> HIDE DEF V
<1>4. PICK g \in [0 .. n -> V] : Gives(g, x, ls, handleLeases(x, ls))
  BY <1>2, <1>3, GiveSteps, Zenon
<1> DEFINE First(k) == {ls[i] : i \in 1 .. k}
           S == {k \in 0 .. n : GivenOut(g[k], First(k))}
<1>5. 0 \in S
  <2>1. First(0) = {} /\ 0 \in 0 .. n
    BY <1>1
  <2> HIDE DEF First
  <2> QED BY <1>4, <2>1, Zenon DEF Gives
<1>6. ASSUME NEW k \in 0 .. n, k < n, k \in S PROVE k + 1 \in S
  <2>1. k + 1 \in 1 .. n /\ (k + 1) - 1 = k /\ k + 1 \in 0 .. n /\ ls[k + 1] \in Leases
    BY <1>1, <1>6, SMTT(30)
  <2>2. First(k) \in SUBSET Leases /\ ls[k + 1] \notin First(k)
    BY <1>1, <2>1 DEF Distinct
  <2>3. First(k + 1) = First(k) \cup {ls[k + 1]}
    <3>1. \A i : i \in 1 .. k + 1 <=> i \in 1 .. k \/ i = k + 1
      BY <2>1
    <3> QED BY <3>1, ZenonT(30)
  <2> HIDE DEF First
  <2>4. g[k + 1] = handleLease(g[k], ls[k + 1])
    BY <1>4, <2>1, Zenon DEF Gives
  <2>5. GivenOut(g[k], First(k))
    BY <1>6, Zenon
  <2>6. GivenOut(handleLease(g[k], ls[k + 1]), First(k) \cup {ls[k + 1]})
    BY <2>1, <2>2, <2>5, GiveOne, Zenon
  <2>7. GivenOut(g[k + 1], First(k + 1))
    BY <2>3, <2>4, <2>6, Zenon
  <2> QED BY <2>1, <2>7, ZenonT(30)
<1>7. n \in S
  <2> HIDE DEF S
  <2>1. n \in 0 .. n
    BY <1>1
  <2> QED BY <1>1, <1>5, <1>6, <2>1, UpTo, ZenonT(30)
<1>8. Range(ls) = First(n)
  BY <1>1, ZenonT(30) DEF Range
<1> HIDE DEF First
<1> QED BY <1>4, <1>7, <1>8, Zenon DEF Gives

-----------------------------------------------------------------------------
(* The handler *)

\* Every step keeps the invariant of the handler.
LEMMA HandlerInvStep ==
    ASSUME HandlerInv, [Next]_vars
    PROVE  HandlerInv'
<1>1. ASSUME NEW l \in Leases, LeaseCreated(l) \/ LeaseWon(l) \/ LeaseClosed(l) PROVE HandlerInv'
  BY <1>1, LeaseCreatedKeeps, LeaseWonKeeps, LeaseClosedKeeps, ZenonT(30)
<1>2. ASSUME NEW d \in Deployments, DeploymentClosed(d) PROVE HandlerInv'
  BY <1>2, DeploymentClosedKeeps, Zenon
<1>3. ASSUME NEW d \in Deployments, ManagerShutdown(d) PROVE HandlerInv'
  BY <1>3, OthersKeep, ZenonT(30) DEF ManagerShutdown, world
<1>4. ASSUME NEW d \in Deployments, ManagerDone(d) PROVE HandlerInv'
  BY <1>4, ManagerDoneKeeps, Zenon
<1>5. ASSUME NEW c \in Callers,
             HandleManifest(c) \/ \E why \in {"cancelled", "not running"} : HandleManifestEnds(c, why)
      PROVE  HandlerInv'
  <2>1. UNCHANGED <<svc, events, managers, phase, held, chain, announced, over, twice, late>>
    BY <1>5, ZenonT(30) DEF HandleManifest, HandleManifestEnds
  <2> QED BY <2>1, OthersKeep, SMTT(30)
<1>6. ASSUME NEW S \in SUBSET Active, NEW ls \in Bijection(1 .. Cardinality(S), S), Start(ls) PROVE HandlerInv'
  <2>1. HandsOut(ls)
    <3>1. ls \in Seq(Leases) /\ Distinct(ls)
      BY Listed, ZenonT(30) DEF HandlerInv
    <3> QED BY <3>1, GiveAll, Zenon DEF HandsOut
  <2> QED BY <1>6, <2>1, StartKeeps, Zenon
<1>7. CASE StartFails \/ Shutdown \/ Drained
  BY <1>7, OthersKeep DEF StartFails, Shutdown, Drained, world
<1>8. CASE TakeLeaseWon \/ TakeLeaseClosed \/ TakeDeploymentClose
  <2>1. \A ls \in Seq(Leases), l \in Leases : Removes(ls, l)
    BY RemoveLoop, Zenon
  <2> QED BY <1>8, <2>1, TakeLeaseWonKeeps, TakeLeaseClosedKeeps, TakeDeploymentCloseKeeps, Zenon
<1>9. CASE UNCHANGED vars
  BY <1>9, OthersKeep DEF vars, world
<1> QED BY <1>1, <1>2, <1>3, <1>4, <1>5, <1>6, <1>7, <1>8, <1>9, ZenonT(30) DEF Next

\* The steps of the process are steps of the handler, of the chain and of the callers, or leave
\* them alone: the process implements the handler.
LEMMA DaemonRefines ==
    /\ DaemonInit => Init
    /\ [DaemonNext]_allVars => [Next]_vars
<1>1. DaemonInit => Init
  BY DEF DaemonInit
<1>2. ASSUME [DaemonNext]_allVars PROVE [Next]_vars
  <2>1. CASE ServiceStep \/ StatusStep \/ OtherDone(1) \/ OtherDone(2)
    BY <2>1, Zenon DEF ServiceStep, StatusStep, OtherDone
  <2>2. CASE HandlerStarts
    BY <2>2, Zenon DEF HandlerStarts, Next
  <2>3. CASE HandlerShutdown \/ HandlerDone
    BY <2>3, Zenon DEF HandlerShutdown, HandlerDone, Next
  <2>4. CASE WorldStep
    BY <2>4, Zenon DEF WorldStep, Next
  <2>5. CASE EventStep
    BY <2>5, Zenon DEF EventStep, Next
  <2>6. ASSUME NEW d \in Deployments, ManagerStep(d) PROVE [Next]_vars
    BY <2>6, Zenon DEF ManagerStep, Next
  <2>7. ASSUME NEW c \in Callers, CallStep(c) \/ CallerReleased(c) PROVE [Next]_vars
    <3>1. HandleManifest(c) \/ \E why \in {"cancelled", "not running"} : HandleManifestEnds(c, why)
      BY <2>7, ZenonT(30) DEF CallStep, CallerReleased
    <3> QED BY <3>1, Zenon DEF Next
  <2>8. CASE UNCHANGED allVars
    BY <2>8 DEF allVars
  <2> QED BY <1>2, <2>1, <2>2, <2>3, <2>4, <2>5, <2>6, <2>7, <2>8, ZenonT(30) DEF DaemonNext
<1> QED BY <1>1, <1>2

\* A manager of a running handler holds the leases of its deployment that are announced and
\* not closed, and no others, for any number of leases and deployments, in the order in which
\* the events come; a lease given twice, closed before it is announced, or skipped at the
\* start is left out.
THEOREM ManagersHoldActive == Spec => []HoldsActive
BY HandlerInvInit, HandlerInvStep, InvHolds, PTL DEF Spec

\* The loop that removes a lease from m.leases does not go beyond the slice unless the lease
\* was given to its manager twice, however long the slice is.
THEOREM RemovalIsSafe == Spec => []PanicsOnlyIfTwice
<1>1. HandlerInv => PanicsOnlyIfTwice
  BY DEF HandlerInv
<1> QED BY <1>1, HandlerInvInit, HandlerInvStep, PTL DEF Spec

\* The process implements the handler, so both hold of the handler inside the process too.
THEOREM DaemonImplementsHandler ==
    DaemonSpec => Init /\ [][Next]_vars /\ []HoldsActive /\ []PanicsOnlyIfTwice
<1>1. HandlerInv => PanicsOnlyIfTwice
  BY DEF HandlerInv
<1> QED BY <1>1, DaemonRefines, HandlerInvInit, HandlerInvStep, InvHolds, PTL DEF DaemonSpec

-----------------------------------------------------------------------------
(* The process *)

\* The children are started one after the other, and before NewService gives up or run stops
\* nobody is waited for.
Started ==
    /\ child \in [1 .. 3 -> {"absent", "running", "blocked", "done"}] /\ awaited \in 1 .. 4
    /\ child[1] = "absent" => child[2] = "absent"
    /\ child[2] = "absent" => child[3] = "absent"
    /\ stage \in {"start", "waiting", "ready", "bidding"} => child[3] = "absent"
    /\ stage \in {"waiting", "ready", "bidding"} => child[1] # "absent"
    /\ stage = "bidding" => child[2] # "absent"
    /\ stage \in {"running", "stopping", "done"} => \A i \in 1 .. 3 : child[i] # "absent"
    /\ stage \notin {"failing", "failed", "stopping", "done"} => awaited = 1

\* Whoever has been waited for is done.
Waited ==
    /\ \A i \in 1 .. 3 : i < awaited => child[i] = "done"
    /\ stage = "failed" => \A i \in 1 .. 3 : child[i] \in {"absent", "done"}
    /\ stage = "done" => \A i \in 1 .. 3 : child[i] = "done"

\* The life of the third child is that of the handler, which has managers only while it runs.
Child ==
    /\ child[3] # "blocked"
    /\ child[3] = "absent" => svc \in {"starting", "failed"}
    /\ child[3] = "running" => svc \in {"running", "draining", "panicked"}
    /\ child[3] = "done" => svc = "done"
    /\ svc \in {"starting", "failed", "done"} => managers = {}

\* The inductive invariant of the process.
DaemonInv == Started /\ Waited /\ Child

\* Nothing has been started.
LEMMA DaemonInvInit == DaemonInit => DaemonInv
BY SMTT(30) DEF DaemonInit, Init, PS!Init, DaemonInv, Started, Waited, Child

\* Steps of the service leave the handler alone; none of them starts or ends the third child.
LEMMA ServiceKeeps ==
    ASSUME DaemonInv, ServiceStep
    PROVE  DaemonInv'
<1> USE DEF DaemonInv, Started, Waited, Child
<1>1. UNCHANGED <<svc, managers>>
  BY SMTT(30) DEF ServiceStep, vars
<1>2. CASE PS!StartCluster
  BY <1>1, <1>2, SMTT(30) DEF PS!StartCluster, PS!Starts, PS!Fail
<1>3. CASE PS!Ready \/ PS!Timeout
  BY <1>1, <1>3, SMTT(30) DEF PS!Ready, PS!Timeout, PS!Fail
<1>4. CASE PS!StartBidengine
  BY <1>1, <1>4, SMTT(30) DEF PS!StartBidengine, PS!Starts, PS!Fail
<1>5. CASE PS!AwaitFailed
  BY <1>1, <1>5, SMTT(30) DEF PS!AwaitFailed
<1>6. CASE PS!Stops
  BY <1>1, <1>6, SMTT(30) DEF PS!Stops
<1>7. CASE PS!AwaitStopped
  BY <1>1, <1>7, SMTT(30) DEF PS!AwaitStopped
<1>8. CASE PS!ClusterReady \/ PS!Close \/ PS!Status \/ PS!StatusEnds
  BY <1>1, <1>8, SMTT(30) DEF PS!ClusterReady, PS!Close, PS!Status, PS!StatusEnds
<1>9. CASE PS!ClusterBlocks
  BY <1>1, <1>9, SMTT(30) DEF PS!ClusterBlocks
<1> QED BY <1>2, <1>3, <1>4, <1>5, <1>6, <1>7, <1>8, <1>9, ZenonT(30) DEF ServiceStep

\* A child ends.  The end of the third one is that of the handler.
LEMMA ChildEnds ==
    ASSUME DaemonInv, NEW i \in 1 .. 3, PS!ChildDone(i),
           IF i = 3 THEN Drained ELSE UNCHANGED <<svc, managers>>
    PROVE  DaemonInv'
BY SMTT(30) DEF PS!ChildDone, Drained, DaemonInv, Started, Waited, Child

\* The handler starts, or fails to.
LEMMA HandlerStartKeeps ==
    ASSUME DaemonInv, HandlerStarts
    PROVE  DaemonInv'
<1> USE DEF DaemonInv, Started, Waited, Child
<1>1. CASE /\ stage = "bidding" /\ PS!Starts(3, "running")
           /\ \E S \in SUBSET Active : \E ls \in Bijection(1 .. Cardinality(S), S) : Start(ls)
  <2>1. svc' = "running"
    BY <1>1, SMTT(30) DEF Start
  <2> QED BY <1>1, <2>1, SMTT(30) DEF PS!Starts
<1>2. CASE stage = "bidding" /\ PS!Fail /\ StartFails
  BY <1>2, SMTT(30) DEF PS!Fail, StartFails
<1> QED BY <1>1, <1>2, SMTT(30) DEF HandlerStarts

\* Steps of the handler and of the world around it: it works in its loop and in its drain.
LEMMA HandlerKeeps ==
    ASSUME DaemonInv, UNCHANGED lifeVars,
           \/ svc' = svc /\ (managers' = managers \/ svc = "running" \/ managers' \subseteq managers)
           \/ svc = "running" /\ svc' \in {"draining", "panicked"}
    PROVE  DaemonInv'
BY DEF lifeVars, DaemonInv, Started, Waited, Child

\* Every step of the process keeps the invariant.
LEMMA DaemonInvStep ==
    ASSUME DaemonInv, [DaemonNext]_allVars
    PROVE  DaemonInv'
<1>1. CASE ServiceStep
  BY <1>1, ServiceKeeps, SMTT(30)
<1>2. CASE StatusStep
  BY <1>2 DEF StatusStep, PS!StatusAnswers, vars, DaemonInv, Started, Waited, Child
<1>3. CASE OtherDone(1) \/ OtherDone(2)
  <2>1. PICK i \in {1, 2} : OtherDone(i)
    BY <1>3
  <2>2. PS!ChildDone(i) /\ UNCHANGED <<svc, managers>> /\ i \in 1 .. 3 /\ i # 3
    BY <2>1 DEF OtherDone, vars
  <2> QED BY <2>2, ChildEnds
<1>4. CASE HandlerStarts
  BY <1>4, HandlerStartKeeps
<1>5. CASE HandlerShutdown
  BY <1>5, HandlerKeeps DEF HandlerShutdown, Shutdown
<1>6. CASE HandlerDone
  BY <1>6, ChildEnds DEF HandlerDone
<1>7. CASE WorldStep
  <2>1. UNCHANGED <<svc, managers, lifeVars>>
    BY <1>7, Zenon DEF WorldStep, LeaseCreated, LeaseClosed, LeaseWon, DeploymentClosed
  <2> QED BY <2>1, HandlerKeeps
<1>8. CASE EventStep
  <2>1. UNCHANGED lifeVars /\ svc = "running" /\ (svc' = svc \/ svc' = "panicked")
    BY <1>8, Zenon DEF EventStep, TakeLeaseWon, TakeLeaseClosed, TakeDeploymentClose, Reads
  <2> QED BY <2>1, HandlerKeeps
<1>9. ASSUME NEW d \in Deployments, ManagerStep(d) PROVE DaemonInv'
  <2>1. UNCHANGED <<svc, lifeVars>> /\ managers' \subseteq managers
    BY <1>9 DEF ManagerStep, ManagerShutdown, ManagerDone
  <2> QED BY <2>1, HandlerKeeps
<1>10. ASSUME NEW c \in Callers, CallStep(c) \/ CallerReleased(c) PROVE DaemonInv'
  <2>1. UNCHANGED <<svc, managers, lifeVars>>
    BY <1>10, ZenonT(30) DEF CallStep, CallerReleased, HandleManifest, HandleManifestEnds
  <2> QED BY <2>1, HandlerKeeps, SMTT(30)
<1>11. CASE UNCHANGED allVars
  BY <1>11, HandlerKeeps, SMTT(30) DEF allVars, vars
<1> QED BY <1>1, <1>2, <1>3, <1>4, <1>5, <1>6, <1>7, <1>8, <1>9, <1>10, <1>11, SMTT(30) DEF DaemonNext

\* When NewService has returned an error or Done is closed, neither a child nor a manager of
\* the handler is left, however many leases there are and wherever the start failed.
THEOREM NothingIsLeftBehind == DaemonSpec => []NothingLeftBehind
<1>1. DaemonInv => NothingLeftBehind
  BY DEF DaemonInv, Started, Waited, Child, NothingLeftBehind, PS!NothingLeftBehind, PS!DoneIsDone
<1> QED BY <1>1, DaemonInvInit, DaemonInvStep, PTL DEF DaemonSpec
=============================================================================
