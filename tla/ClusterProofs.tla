--------------------------- MODULE ClusterProofs ----------------------------
(***************************************************************************)
(* The cluster service keeps the state machine of every deployment manager *)
(* in step with the client call behind it, for any number of leases,       *)
(* groups, events, retries and crashes.                                    *)
(***************************************************************************)
EXTENDS Cluster, TLAPS

Teardowns == {"teardown-active", "teardown-complete"}

\* The call behind runch is the one the manager's state names.
Called(l) ==
    /\ l \in managers <=> phase[l] # "none"
    /\ task[l].op = "none" <=> task[l].step = "none"
    /\ task[l].op # "none" => phase[l] \in {"loop", "leaving"}
    /\ task[l].op = "teardown" => state[l] = "teardown-active"
    /\ phase[l] = "loop" => (task[l].op # "none" <=> state[l] \in Expecting)
    /\ phase[l] # "none" /\ state[l] \in Teardowns => task[l].op # "deploy"

\* A deploy that nothing has overtaken brings the group that the manager was given last.
Current(l) ==
    phase[l] = "loop" =>
        /\ state[l] = "deploy-active" /\ task[l].step = "calling" => task[l].group = mgroup[l]
        /\ state[l] = "deploy-active" /\ task[l].step = "returned" /\ ~failed[l] => deployed[l] = mgroup[l]
        /\ state[l] = "deploy-complete" /\ ~failed[l] => deployed[l] = mgroup[l]

\* The monitor's count of attempts is the number of failed checks in a row.
Counted(l) ==
    /\ monitor[l] # NoMonitor => state[l] = "deploy-complete" /\ phase[l] \in {"loop", "leaving"}
    /\ phase[l] \in {"none", "done"} => lingering[l] = 0
    /\ monitor[l].on = "none" => monitor[l] = NoMonitor /\ unhealthy[l] = 0
    /\ monitor[l].on = "tick" => monitor[l].attempts = unhealthy[l] /\ unhealthy[l] <= MaxRetries
    /\ monitor[l].on = "check" => monitor[l].attempts = unhealthy[l] + 1 /\ unhealthy[l] <= MaxRetries
    /\ monitor[l].on = "close" => unhealthy[l] = MaxRetries + 1

\* A teardown is for a lease that is closed; once it is done nothing can deploy again, because
\* the manager only leaves and takes the reservation with it.
TornDown(l) ==
    /\ phase[l] # "none" /\ state[l] \in Teardowns \cup {"teardown-pending"} => chain[l] = "closed"
    /\ l \in gone =>
          /\ chain[l] = "closed" /\ deployed[l] = NoGroup
          /\ phase[l] # "none" => state[l] \in Teardowns
          /\ phase[l] = "none" => l \notin reserved \/ svc \notin {"running", "down"}

\* What is about to tear a lease down says so because it is closed; a provider that is down
\* has no reservations.
Announced ==
    /\ svc = "down" => reserved = {}
    /\ call # NoCall /\ call.op = "teardown" => chain[call.lease] = "closed"
    /\ \A i \in DOMAIN events : events[i].type = "closed" => chain[events[i].lease] = "closed"

\* What holds of every lease, and the inductive invariant.
LInv(l) == Called(l) /\ Current(l) /\ Counted(l) /\ TornDown(l)
ClusterInv == TypeOK /\ Announced /\ \A l \in Leases : LInv(l)

-----------------------------------------------------------------------------
(* Functions and records *)

\* A function that is changed at one place.
LEMMA Changed ==
    ASSUME NEW A, NEW B, NEW f \in [A -> B], NEW a \in A, NEW b \in B
    PROVE  /\ [f EXCEPT ![a] = b] \in [A -> B] /\ [f EXCEPT ![a] = b][a] = b
           /\ \A x \in A : x # a => [f EXCEPT ![a] = b][x] = f[x]
OBVIOUS

\* The constants of the module are tasks and monitors.
LEMMA Defaults ==
    /\ NoTask \in Tasks /\ NoTask.op = "none" /\ NoTask.step = "none"
    /\ NoMonitor \in Monitors /\ NoMonitor.on = "none"
    /\ \A op \in {"deploy", "teardown"} :
          Spawn(op) \in Tasks /\ Spawn(op).op = op /\ Spawn(op).step = "spawned"
<1>1. NoTask \in Tasks /\ NoTask.op = "none" /\ NoTask.step = "none"
  BY DEF NoTask, Tasks, AnyGroup
<1>2. NoMonitor \in Monitors /\ NoMonitor.on = "none"
  BY DEF NoMonitor, Monitors
<1>3. \A op \in {"deploy", "teardown"} :
         Spawn(op) \in Tasks /\ Spawn(op).op = op /\ Spawn(op).step = "spawned"
  BY DEF Tasks, Spawn, AnyGroup
<1> QED BY <1>1, <1>2, <1>3

\* A task whose step or group is changed.
LEMMA TaskFields ==
    ASSUME NEW t \in Tasks
    PROVE  /\ t.op \in {"none", "deploy", "teardown"} /\ t.group \in AnyGroup
           /\ t.step \in {"none", "spawned", "calling", "returned"}
           /\ \A g \in AnyGroup :
                 LET u == [t EXCEPT !.step = "calling", !.group = g] IN
                 u \in Tasks /\ u.op = t.op /\ u.step = "calling" /\ u.group = g
           /\ LET u == [t EXCEPT !.step = "returned"] IN
              u \in Tasks /\ u.op = t.op /\ u.step = "returned" /\ u.group = t.group
BY Zenon DEF Tasks

\* A monitor that is changed.
LEMMA MonitorFields ==
    ASSUME NEW t \in Monitors
    PROVE  /\ t.on \in {"none", "tick", "check", "close", "idle"} /\ t.attempts \in Nat
           /\ \A o \in {"none", "tick", "check", "close", "idle"} : \A n \in Nat :
                 LET u == [on |-> o, attempts |-> n] IN
                 u \in Monitors /\ u.on = o /\ u.attempts = n
           /\ LET u == [t EXCEPT !.on = "check", !.attempts = @ + 1] IN
              u \in Monitors /\ u.on = "check" /\ u.attempts = t.attempts + 1
           /\ LET u == [t EXCEPT !.on = "idle"] IN
              u \in Monitors /\ u.on = "idle" /\ u.attempts = t.attempts
<1>1. t.on \in {"none", "tick", "check", "close", "idle"} /\ t.attempts \in Nat
  BY DEF Monitors
<1>2. \A o \in {"none", "tick", "check", "close", "idle"} : \A n \in Nat :
         LET u == [on |-> o, attempts |-> n] IN u \in Monitors /\ u.on = o /\ u.attempts = n
  BY DEF Monitors
<1>3. t.attempts + 1 \in Nat
  BY <1>1
<1>4. LET u == [t EXCEPT !.on = "check", !.attempts = @ + 1] IN
      u \in Monitors /\ u.on = "check" /\ u.attempts = t.attempts + 1
  BY <1>3, Zenon DEF Monitors
<1>5. LET u == [t EXCEPT !.on = "idle"] IN
      u \in Monitors /\ u.on = "idle" /\ u.attempts = t.attempts
  BY Zenon DEF Monitors
<1> QED BY <1>1, <1>2, <1>4, <1>5, Zenon

-----------------------------------------------------------------------------
(* Frames *)

\* Nothing of the lease l changes.
Same(l) ==
    /\ phase'[l] = phase[l] /\ state'[l] = state[l] /\ mgroup'[l] = mgroup[l] /\ task'[l] = task[l]
    /\ monitor'[l] = monitor[l] /\ lingering'[l] = lingering[l] /\ unhealthy'[l] = unhealthy[l]
    /\ deployed'[l] = deployed[l] /\ chain'[l] = chain[l] /\ failed'[l] = failed[l]
    /\ (l \in managers' <=> l \in managers) /\ (l \in gone' => l \in gone)
    /\ (l \in reserved' => l \in reserved)

\* A lease of which nothing changes keeps what holds of it.
LEMMA Frame ==
    ASSUME NEW l \in Leases, LInv(l), Same(l), svc' \in {"running", "down"} => svc \in {"running", "down"}
    PROVE  LInv(l)'
<1>1. Called(l)'
  BY DEF LInv, Called, Same
<1>2. Current(l)'
  BY DEF LInv, Current, Same
<1>3. Counted(l)'
  BY DEF LInv, Counted, Same
<1>4. TornDown(l)'
  BY DEF LInv, TornDown, Same
<1> QED BY <1>1, <1>2, <1>3, <1>4 DEF LInv

\* stopMonitor leaves no monitor, and keeps the count right.
LEMMA Stopped ==
    ASSUME TypeOK, NEW l \in Leases, Counted(l), StopMonitor(l)
    PROVE  /\ monitor' \in [Leases -> Monitors] /\ lingering' \in [Leases -> Nat]
           /\ unhealthy' \in [Leases -> Nat]
           /\ monitor'[l] = NoMonitor /\ unhealthy'[l] = 0
           /\ \A m \in Leases : m # l => /\ monitor'[m] = monitor[m] /\ lingering'[m] = lingering[m]
                                        /\ unhealthy'[m] = unhealthy[m]
<1>1. monitor \in [Leases -> Monitors] /\ lingering \in [Leases -> Nat] /\ unhealthy \in [Leases -> Nat]
  BY DEF TypeOK
<1>2. CASE monitor[l] = NoMonitor
  <2>1. UNCHANGED <<monitor, lingering, unhealthy>>
    BY <1>2 DEF StopMonitor, health
  <2>2. unhealthy[l] = 0
    BY <1>2, Defaults DEF Counted
  <2> QED BY <1>1, <1>2, <2>1, <2>2
<1>3. CASE monitor[l] # NoMonitor
  <2>1. /\ monitor' = [monitor EXCEPT ![l] = NoMonitor]
        /\ lingering' = [lingering EXCEPT ![l] = lingering[l] + 1]
        /\ unhealthy' = [unhealthy EXCEPT ![l] = 0]
    BY <1>3 DEF StopMonitor
  <2>2. NoMonitor \in Monitors /\ lingering[l] + 1 \in Nat
    BY <1>1, Defaults
  <2> QED BY <1>1, <2>1, <2>2
<1> QED BY <1>2, <1>3

-----------------------------------------------------------------------------
(* The manager *)

\* A step that changes only what belongs to l keeps the invariant if it keeps what holds of l.
LEMMA OnlyOne ==
    ASSUME ClusterInv, NEW l \in Leases, TypeOK', Announced', LInv(l)',
           svc' \in {"running", "down"} => svc \in {"running", "down"},
           managers' \ {l} = managers \ {l}, reserved' \ {l} \subseteq reserved, gone' \subseteq gone \cup {l},
           \A m \in Leases : m # l =>
               /\ phase'[m] = phase[m] /\ state'[m] = state[m] /\ mgroup'[m] = mgroup[m]
               /\ task'[m] = task[m] /\ monitor'[m] = monitor[m] /\ lingering'[m] = lingering[m]
               /\ unhealthy'[m] = unhealthy[m] /\ deployed'[m] = deployed[m] /\ failed'[m] = failed[m]
               /\ chain'[m] = chain[m]
    PROVE  ClusterInv'
<1>1. ASSUME NEW m \in Leases, m # l PROVE LInv(m)'
  <2>1. Same(m)
    BY <1>1, Zenon DEF Same
  <2>2. LInv(m)
    BY DEF ClusterInv
  <2> QED BY <2>1, <2>2, Frame
<1> QED BY <1>1 DEF ClusterInv

\* The same for a step of the manager of l, which the service does not take part in.
LEMMA Inside ==
    ASSUME ClusterInv, NEW l \in Leases, TypeOK', LInv(l)', UNCHANGED <<svc, chain, call, events>>,
           managers' \ {l} = managers \ {l}, reserved' \subseteq reserved, gone' \subseteq gone \cup {l},
           \A m \in Leases : m # l =>
               /\ phase'[m] = phase[m] /\ state'[m] = state[m] /\ mgroup'[m] = mgroup[m]
               /\ task'[m] = task[m] /\ monitor'[m] = monitor[m] /\ lingering'[m] = lingering[m]
               /\ unhealthy'[m] = unhealthy[m] /\ deployed'[m] = deployed[m] /\ failed'[m] = failed[m]
    PROVE  ClusterInv'
<1>1. Announced'
  BY DEF ClusterInv, Announced
<1>2. reserved' \ {l} \subseteq reserved
  OBVIOUS
<1> QED BY <1>1, <1>2, OnlyOne, Zenon

\* A step that touches no lease keeps what holds of each.
LEMMA Untouched ==
    ASSUME ClusterInv, TypeOK', Announced',
           UNCHANGED <<managers, phase, state, mgroup, task, monitor, lingering, unhealthy, deployed, chain,
                       failed, gone>>,
           reserved' \subseteq reserved, svc' \in {"running", "down"} => svc \in {"running", "down"}
    PROVE  ClusterInv'
<1>1. ASSUME NEW m \in Leases PROVE LInv(m)'
  <2>1. Same(m)
    BY <1>1, Zenon DEF Same
  <2>2. LInv(m)
    BY DEF ClusterInv
  <2> QED BY <2>1, <2>2, Frame
<1> QED BY <1>1 DEF ClusterInv

\* The goroutine of do reads the group that the manager has then.
LEMMA CallStartStep ==
    ASSUME ClusterInv, NEW l \in Leases, CallStart(l)
    PROVE  ClusterInv'
<1> DEFINE t == [task[l] EXCEPT !.step = "calling", !.group = mgroup[l]]
<1>1. /\ task[l].step = "spawned" /\ task' = [task EXCEPT ![l] = t]
      /\ UNCHANGED <<svc, stop, call, events, managers, reserved, phase, stopping, state, mgroup,
                     monitor, lingering, unhealthy, deployed, chain, published, crashes, failed, gone>>
  BY Zenon DEF CallStart, service, health, world
<1>2. /\ task \in [Leases -> Tasks] /\ mgroup \in [Leases -> AnyGroup]
      /\ task[l] \in Tasks /\ mgroup[l] \in AnyGroup
  BY Zenon DEF ClusterInv, TypeOK
<1>3. t \in Tasks /\ t.op = task[l].op /\ t.step = "calling" /\ t.group = mgroup[l]
  <2>1. ASSUME NEW u \in Tasks, NEW g \in AnyGroup
        PROVE  LET v == [u EXCEPT !.step = "calling", !.group = g] IN
               v \in Tasks /\ v.op = u.op /\ v.step = "calling" /\ v.group = g
    BY TaskFields, Zenon
  <2> QED BY <1>2, <2>1, Zenon
<1> HIDE DEF t
<1>4. task' \in [Leases -> Tasks] /\ task'[l] = t /\ \A m \in Leases : m # l => task'[m] = task[m]
  BY <1>1, <1>2, <1>3, Changed, Zenon
<1>5. TypeOK'
  BY <1>1, <1>4, Zenon DEF ClusterInv, TypeOK
<1>6. LInv(l)
  BY DEF ClusterInv
<1>7. Called(l)'
  BY <1>1, <1>3, <1>4, <1>6 DEF LInv, Called
<1>8. Current(l)'
  BY <1>1, <1>3, <1>4, <1>6 DEF LInv, Current
<1>9. Counted(l)' /\ TornDown(l)'
  BY <1>1, <1>6, Zenon DEF LInv, Counted, TornDown
<1> QED BY <1>1, <1>4, <1>5, <1>7, <1>8, <1>9, Inside, Zenon DEF LInv

\* A client call returns: only a deploy that is not overtaken counts for the manager, and a
\* teardown leaves nothing.
LEMMA CallReturnsStep ==
    ASSUME ClusterInv, NEW l \in Leases, NEW fails \in BOOLEAN, CallReturns(l, fails)
    PROVE  ClusterInv'
<1> DEFINE t == [task[l] EXCEPT !.step = "returned"]
           wanted == IF task[l].op = "deploy" THEN task[l].group ELSE NoGroup
<1>1. PICK g \in {wanted} \cup IF fails THEN {deployed[l]} ELSE {} :
          deployed' = [deployed EXCEPT ![l] = g]
  BY Zenon DEF CallReturns
<1>2. /\ task[l].step = "calling" /\ task' = [task EXCEPT ![l] = t]
      /\ failed' = [failed EXCEPT ![l] = fails]
      /\ gone' = IF task[l].op = "teardown" /\ ~fails THEN gone \cup {l} ELSE gone
      /\ UNCHANGED <<svc, stop, call, events, managers, reserved, phase, stopping, state, mgroup,
                     monitor, lingering, unhealthy, chain, published, crashes>>
  BY DEF CallReturns, service, health
<1>3. /\ task \in [Leases -> Tasks] /\ deployed \in [Leases -> AnyGroup] /\ failed \in [Leases -> BOOLEAN]
      /\ task[l] \in Tasks /\ deployed[l] \in AnyGroup /\ gone \subseteq Leases
  BY Zenon DEF ClusterInv, TypeOK
<1>4. task[l].op \in {"none", "deploy", "teardown"} /\ task[l].group \in AnyGroup /\ NoGroup \in AnyGroup
  BY <1>3, TaskFields, Zenon DEF AnyGroup
<1>5. /\ g \in AnyGroup /\ (task[l].op = "deploy" /\ ~fails => g = task[l].group)
      /\ (task[l].op # "deploy" /\ (~fails \/ deployed[l] = NoGroup) => g = NoGroup)
  BY <1>1, <1>3, <1>4
<1>6. t \in Tasks /\ t.op = task[l].op /\ t.step = "returned"
  <2>1. ASSUME NEW u \in Tasks
        PROVE  LET v == [u EXCEPT !.step = "returned"] IN v \in Tasks /\ v.op = u.op /\ v.step = "returned"
    BY TaskFields, Zenon
  <2> QED BY <1>3, <2>1, Zenon
<1> HIDE DEF t, wanted
<1>7. /\ task' \in [Leases -> Tasks] /\ task'[l] = t /\ \A m \in Leases : m # l => task'[m] = task[m]
      /\ failed' \in [Leases -> BOOLEAN] /\ failed'[l] = fails
      /\ \A m \in Leases : m # l => failed'[m] = failed[m]
      /\ deployed' \in [Leases -> AnyGroup] /\ deployed'[l] = g
      /\ \A m \in Leases : m # l => deployed'[m] = deployed[m]
  BY <1>1, <1>2, <1>3, <1>5, <1>6, Changed, Zenon
<1>8. gone' \subseteq Leases /\ gone' \subseteq gone \cup {l}
      /\ (l \in gone' => l \in gone \/ (task[l].op = "teardown" /\ ~fails))
  BY <1>2, <1>3
<1>9. TypeOK'
  BY <1>2, <1>7, <1>8, Zenon DEF ClusterInv, TypeOK
<1>10. Called(l) /\ Current(l) /\ Counted(l) /\ TornDown(l)
  BY DEF ClusterInv, LInv
<1>11. Called(l)'
  BY <1>2, <1>6, <1>7, <1>10 DEF Called
<1>12. Current(l)'
  <2>1. phase[l] = "loop" => state[l] \in Expecting
    BY <1>2, <1>10 DEF Called
  <2>2. phase[l] = "loop" /\ state[l] = "deploy-active" => task[l].op = "deploy" /\ task[l].group = mgroup[l]
    BY <1>2, <1>4, <1>10 DEF Called, Current
  <2> QED BY <1>2, <1>5, <1>6, <1>7, <2>1, <2>2 DEF Current, Expecting
<1>13. Counted(l)'
  BY <1>2, <1>10, Zenon DEF Counted
<1>14. TornDown(l)'
  <2>1. phase[l] # "none" /\ task[l].op # "none"
    BY <1>2, <1>10 DEF Called
  <2>2. task[l].op = "teardown" => state[l] \in Teardowns /\ chain[l] = "closed"
    BY <1>10, <2>1 DEF Called, TornDown, Teardowns
  <2>3. l \in gone => task[l].op = "teardown" /\ deployed[l] = NoGroup
    BY <1>4, <1>10, <2>1 DEF Called, TornDown
  <2> QED BY <1>2, <1>5, <1>7, <1>8, <1>10, <2>1, <2>2, <2>3 DEF TornDown
<1>15. UNCHANGED <<svc, chain, call, events>> /\ managers' \ {l} = managers \ {l} /\ reserved' \subseteq reserved
  BY <1>2
<1>16. LInv(l)'
  BY <1>11, <1>12, <1>13, <1>14 DEF LInv
<1> QED BY <1>2, <1>7, <1>8, <1>9, <1>15, <1>16, Inside, Zenon

\* The manager or its monitor stops.
LEMMA LeavingStep ==
    ASSUME ClusterInv, NEW l \in Leases, ManagerShutdown(l) \/ ManagerLeaves(l)
    PROVE  ClusterInv'
<1>1. /\ UNCHANGED <<svc, stop, call, events, managers, reserved, state, mgroup, monitor, lingering,
                     unhealthy, deployed, chain, published, crashes, failed, gone>>
      /\ phase[l] \in {"loop", "leaving"}
  BY DEF ManagerShutdown, ManagerLeaves, service, health, world
<1>2. /\ phase \in [Leases -> {"none", "loop", "leaving", "done"}] /\ stopping \in [Leases -> BOOLEAN]
      /\ task \in [Leases -> Tasks] /\ NoTask \in Tasks
  BY Defaults, Zenon DEF ClusterInv, TypeOK
<1>3. \/ phase[l] = "loop" /\ phase' = [phase EXCEPT ![l] = "leaving"] /\ task' = task
         /\ stopping' = [stopping EXCEPT ![l] = TRUE]
      \/ phase' = [phase EXCEPT ![l] = "done"] /\ task' = [task EXCEPT ![l] = NoTask]
         /\ phase[l] = "leaving" /\ monitor[l] = NoMonitor /\ lingering[l] = 0 /\ stopping' = stopping
  BY DEF ManagerShutdown, ManagerLeaves
<1>4. /\ phase' \in [Leases -> {"none", "loop", "leaving", "done"}] /\ stopping' \in [Leases -> BOOLEAN]
      /\ task' \in [Leases -> Tasks]
      /\ \A m \in Leases : m # l => phase'[m] = phase[m] /\ task'[m] = task[m]
      /\ \/ phase'[l] = "leaving" /\ task'[l] = task[l]
         \/ phase'[l] = "done" /\ task'[l] = NoTask /\ monitor[l] = NoMonitor /\ lingering[l] = 0
  BY <1>2, <1>3, Zenon
<1>5. TypeOK'
  BY <1>1, <1>4, Zenon DEF ClusterInv, TypeOK
<1>6. Called(l) /\ Current(l) /\ Counted(l) /\ TornDown(l)
  BY DEF ClusterInv, LInv
<1>7. Called(l)'
  BY <1>1, <1>4, <1>6, Defaults DEF Called
<1>8. Current(l)' /\ TornDown(l)'
  BY <1>1, <1>4, <1>6, Zenon DEF Current, TornDown
<1>9. Counted(l)'
  BY <1>1, <1>4, <1>6 DEF Counted
<1>10. managers' \ {l} = managers \ {l} /\ reserved' \subseteq reserved /\ gone' \subseteq gone \cup {l}
  BY <1>1
<1>11. LInv(l)'
  BY <1>7, <1>8, <1>9 DEF LInv
<1> QED BY <1>1, <1>4, <1>5, <1>10, <1>11, Inside, Zenon

\* A step of the monitor of l keeps the invariant if it keeps the count.
LEMMA Watching ==
    ASSUME ClusterInv, NEW l \in Leases, Counted(l)',
           UNCHANGED <<svc, stop, call, events, managers, reserved, phase, stopping, state, mgroup, task,
                       deployed, chain, published, crashes, failed, gone>>,
           monitor' \in [Leases -> Monitors], lingering' \in [Leases -> Nat], unhealthy' \in [Leases -> Nat],
           \A m \in Leases : m # l => /\ monitor'[m] = monitor[m] /\ lingering'[m] = lingering[m]
                                    /\ unhealthy'[m] = unhealthy[m]
    PROVE  ClusterInv'
<1>1. TypeOK'
  BY Zenon DEF ClusterInv, TypeOK
<1>2. Called(l) /\ Current(l) /\ TornDown(l)
  BY Zenon DEF ClusterInv, LInv
<1>3. LInv(l)'
  BY <1>2, Zenon DEF LInv, Called, Current, TornDown
<1>4. managers' \ {l} = managers \ {l} /\ reserved' \subseteq reserved /\ gone' \subseteq gone \cup {l}
  OBVIOUS
<1> QED BY <1>1, <1>3, <1>4, Inside, Zenon

\* The monitor checks, retries and gives up, or is stopped.
LEMMA MonitorSteps ==
    ASSUME ClusterInv, NEW l \in Leases, MonitorStep(l) \/ MonitorShutdown(l) \/ MonitorDone(l)
    PROVE  ClusterInv'
<1> USE DEF service, manager, world
<1>1. /\ monitor \in [Leases -> Monitors] /\ lingering \in [Leases -> Nat] /\ unhealthy \in [Leases -> Nat]
      /\ monitor[l] \in Monitors /\ lingering[l] \in Nat /\ unhealthy[l] \in Nat
  BY Zenon DEF ClusterInv, TypeOK
<1>2. Counted(l) /\ TypeOK
  BY Zenon DEF ClusterInv, LInv
<1>3. monitor[l].on \in {"none", "tick", "check", "close", "idle"} /\ monitor[l].attempts \in Nat
  BY <1>1, MonitorFields, Zenon
<1>4. MaxRetries \in Nat
  BY ClusterAssumption
<1>5. CASE Tick(l)
  <2> DEFINE t == [monitor[l] EXCEPT !.on = "check", !.attempts = @ + 1]
  <2>1. monitor[l].on = "tick" /\ monitor' = [monitor EXCEPT ![l] = t]
    BY <1>5, Zenon DEF Tick
  <2>2. UNCHANGED <<svc, stop, call, events, managers, reserved, phase, stopping, state, mgroup, task,
                    deployed, chain, published, crashes, failed, gone, lingering, unhealthy>>
    BY <1>5 DEF Tick
  <2>3. t \in Monitors /\ t.on = "check" /\ t.attempts = monitor[l].attempts + 1
    BY <1>1, MonitorFields, Zenon
  <2> HIDE DEF t
  <2>4. monitor' \in [Leases -> Monitors] /\ monitor'[l] = t /\ \A m \in Leases : m # l => monitor'[m] = monitor[m]
    BY <1>1, <2>1, <2>3, Changed, Zenon
  <2>5. Counted(l)'
    BY <1>2, <2>1, <2>2, <2>3, <2>4, Defaults DEF Counted
  <2> QED BY <1>1, <2>2, <2>4, <2>5, Watching, Zenon
<1>6. ASSUME NEW ok \in BOOLEAN, Checked(l, ok) PROVE ClusterInv'
  <2> DEFINE o == IF ok \/ monitor[l].attempts <= MaxRetries THEN "tick" ELSE "close"
             n == IF ok THEN 0 ELSE monitor[l].attempts
             t == [on |-> o, attempts |-> n]
             u == IF ok THEN 0 ELSE unhealthy[l] + 1
  <2>1. /\ monitor[l].on = "check" /\ monitor' = [monitor EXCEPT ![l] = t]
        /\ unhealthy' = [unhealthy EXCEPT ![l] = u]
    BY <1>6 DEF Checked, Retry
  <2>2. UNCHANGED <<svc, stop, call, events, managers, reserved, phase, stopping, state, mgroup, task,
                    deployed, chain, published, crashes, failed, gone, lingering>>
    BY <1>6 DEF Checked
  <2>3. o \in {"none", "tick", "check", "close", "idle"} /\ n \in Nat /\ u \in Nat
    BY <1>1, <1>3
  <2>4. t \in Monitors /\ t.on = o /\ t.attempts = n
    BY <1>1, <2>3, MonitorFields, Zenon
  <2>5. monitor[l].attempts = unhealthy[l] + 1 /\ unhealthy[l] <= MaxRetries
    BY <1>2, <2>1 DEF Counted
  <2>6. /\ o \in {"tick", "close"}
        /\ o = "tick" => n = u /\ u <= MaxRetries
        /\ o = "close" => u = MaxRetries + 1
    BY <1>1, <1>4, <2>5
  <2> HIDE DEF t, o, n, u
  <2>7. /\ monitor' \in [Leases -> Monitors] /\ monitor'[l] = t
        /\ \A m \in Leases : m # l => monitor'[m] = monitor[m]
        /\ unhealthy' \in [Leases -> Nat] /\ unhealthy'[l] = u
        /\ \A m \in Leases : m # l => unhealthy'[m] = unhealthy[m]
    BY <1>1, <2>1, <2>3, <2>4, Changed, Zenon
  <2>8. Counted(l)'
    BY <1>2, <2>1, <2>2, <2>4, <2>6, <2>7, Defaults DEF Counted
  <2> QED BY <1>1, <2>2, <2>7, <2>8, Watching, Zenon
<1>7. CASE CloseLease(l)
  <2> DEFINE t == [monitor[l] EXCEPT !.on = "idle"]
  <2>1. monitor[l].on = "close" /\ monitor' = [monitor EXCEPT ![l] = t]
    BY <1>7 DEF CloseLease
  <2>2. UNCHANGED <<svc, stop, call, events, managers, reserved, phase, stopping, state, mgroup, task,
                    deployed, chain, published, crashes, failed, gone, lingering, unhealthy>>
    BY <1>7 DEF CloseLease
  <2>3. t \in Monitors /\ t.on = "idle"
    BY <1>1, MonitorFields, Zenon
  <2> HIDE DEF t
  <2>4. monitor' \in [Leases -> Monitors] /\ monitor'[l] = t /\ \A m \in Leases : m # l => monitor'[m] = monitor[m]
    BY <1>1, <2>1, <2>3, Changed, Zenon
  <2>5. Counted(l)'
    BY <1>2, <2>1, <2>2, <2>3, <2>4, Defaults DEF Counted
  <2> QED BY <1>1, <2>2, <2>4, <2>5, Watching, Zenon
<1>8. CASE MonitorShutdown(l)
  <2>1. StopMonitor(l) /\ monitor[l] # NoMonitor
    BY <1>8 DEF MonitorShutdown
  <2>2. UNCHANGED <<svc, stop, call, events, managers, reserved, phase, stopping, state, mgroup, task,
                    deployed, chain, published, crashes, failed, gone>>
    BY <1>8 DEF MonitorShutdown
  <2>3. /\ monitor' \in [Leases -> Monitors] /\ lingering' \in [Leases -> Nat]
        /\ unhealthy' \in [Leases -> Nat] /\ monitor'[l] = NoMonitor /\ unhealthy'[l] = 0
        /\ \A m \in Leases : m # l => /\ monitor'[m] = monitor[m] /\ lingering'[m] = lingering[m]
                                     /\ unhealthy'[m] = unhealthy[m]
    BY <1>2, <2>1, Stopped, Zenon
  <2>4. Counted(l)'
    BY <1>2, <2>1, <2>2, <2>3, Defaults DEF Counted
  <2> QED BY <2>2, <2>3, <2>4, Watching, Zenon
<1>9. CASE MonitorDone(l)
  <2>1. /\ lingering[l] > 0 /\ lingering' = [lingering EXCEPT ![l] = lingering[l] - 1]
        /\ UNCHANGED <<svc, stop, call, events, managers, reserved, phase, stopping, state, mgroup, task,
                       deployed, chain, published, crashes, failed, gone, monitor, unhealthy>>
    BY <1>9 DEF MonitorDone
  <2>2. lingering' \in [Leases -> Nat] /\ \A m \in Leases : m # l => lingering'[m] = lingering[m]
    BY <1>1, <2>1
  <2>3. Counted(l)'
    <3>1. phase[l] \notin {"none", "done"}
      BY <1>2, <2>1 DEF Counted
    <3> QED BY <1>2, <2>1, <3>1, Zenon DEF Counted
  <2> QED BY <1>1, <2>1, <2>2, <2>3, Watching, Zenon
<1> QED BY <1>5, <1>6, <1>7, <1>8, <1>9, Zenon DEF MonitorStep

\* The manager starts a client call, after it has stopped its monitor.
Begins(l, op, st) ==
    /\ state' \in [Leases -> States] /\ state'[l] = st
    /\ \A m \in Leases : m # l => state'[m] = state[m]
    /\ task' \in [Leases -> Tasks] /\ task'[l].op = op /\ task'[l].step = "spawned"
    /\ \A m \in Leases : m # l => task'[m] = task[m]
    /\ monitor' \in [Leases -> Monitors] /\ lingering' \in [Leases -> Nat]
    /\ unhealthy' \in [Leases -> Nat] /\ monitor'[l] = NoMonitor /\ unhealthy'[l] = 0
    /\ \A m \in Leases : m # l => /\ monitor'[m] = monitor[m] /\ lingering'[m] = lingering[m]
                                 /\ unhealthy'[m] = unhealthy[m]

\* startDeploy and startTeardown.
LEMMA Starting ==
    ASSUME TypeOK, NEW l \in Leases, Counted(l)
    PROVE  /\ startDeploy(l) => Begins(l, "deploy", "deploy-active")
           /\ startTeardown(l) => Begins(l, "teardown", "teardown-active")
<1>1. state \in [Leases -> States] /\ task \in [Leases -> Tasks]
  BY Zenon DEF TypeOK
<1>2. "deploy-active" \in States /\ "teardown-active" \in States
  BY DEF States
<1>3. ASSUME NEW op \in {"deploy", "teardown"}, NEW st \in States, StopMonitor(l),
             state' = [state EXCEPT ![l] = st], task' = [task EXCEPT ![l] = Spawn(op)]
      PROVE  Begins(l, op, st)
  <2>1. Spawn(op) \in Tasks /\ Spawn(op).op = op /\ Spawn(op).step = "spawned"
    BY Defaults, Zenon
  <2>2. /\ state' \in [Leases -> States] /\ state'[l] = st
        /\ \A m \in Leases : m # l => state'[m] = state[m]
    BY <1>1, <1>3, Changed, Zenon
  <2>3. /\ task' \in [Leases -> Tasks] /\ task'[l] = Spawn(op)
        /\ \A m \in Leases : m # l => task'[m] = task[m]
    BY <1>1, <1>3, <2>1, Changed, Zenon
  <2> QED BY <1>3, <2>1, <2>2, <2>3, Stopped, Zenon DEF Begins
<1>4. "deploy" \in {"deploy", "teardown"} /\ "teardown" \in {"deploy", "teardown"}
  OBVIOUS
<1>5. startDeploy(l) => Begins(l, "deploy", "deploy-active")
  BY <1>2, <1>3, <1>4, Zenon DEF startDeploy
<1>6. startTeardown(l) => Begins(l, "teardown", "teardown-active")
  BY <1>2, <1>3, <1>4, Zenon DEF startTeardown
<1> QED BY <1>5, <1>6

\* A call that begins in the loop of a manager keeps what holds of its lease: a deploy if
\* nothing was torn down, a teardown if the lease is closed.
LEMMA Beginning ==
    ASSUME NEW l \in Leases, LInv(l), NEW op, NEW st, Begins(l, op, st),
           (op = "deploy" /\ st = "deploy-active" /\ l \notin gone)
             \/ (op = "teardown" /\ st = "teardown-active" /\ chain[l] = "closed"),
           phase'[l] = "loop", l \in managers', UNCHANGED <<chain, gone, deployed>>
    PROVE  LInv(l)'
<1>1. Called(l)'
  BY Zenon DEF LInv, Called, Begins, Expecting, States, Teardowns
<1>2. Current(l)'
  BY Zenon DEF LInv, Current, Begins
<1>3. Counted(l)'
  BY Defaults, Zenon DEF LInv, Counted, Begins
<1>4. TornDown(l)'
  BY DEF LInv, TornDown, Begins, Teardowns
<1> QED BY <1>1, <1>2, <1>3, <1>4, Zenon DEF LInv

\* The manager takes the result of its client call.
LEMMA ResultStep ==
    ASSUME ClusterInv, NEW l \in Leases, Result(l)
    PROVE  ClusterInv'
<1> USE DEF service, world
<1>1. /\ phase[l] = "loop" /\ task[l].step = "returned"
      /\ UNCHANGED <<svc, stop, call, events, managers, reserved, stopping, mgroup, deployed, chain,
                     published, crashes, failed, gone>>
  BY DEF Result
<1>2. /\ phase \in [Leases -> {"none", "loop", "leaving", "done"}] /\ state \in [Leases -> States]
      /\ task \in [Leases -> Tasks] /\ monitor \in [Leases -> Monitors]
      /\ lingering \in [Leases -> Nat] /\ unhealthy \in [Leases -> Nat]
      /\ NoTask \in Tasks /\ TypeOK
  BY Defaults, Zenon DEF ClusterInv, TypeOK
<1>3. LInv(l) /\ Called(l) /\ Current(l) /\ Counted(l) /\ TornDown(l)
  BY Zenon DEF ClusterInv, LInv
<1>4. l \in managers /\ task[l].op # "none" /\ state[l] \in Expecting
  BY <1>1, <1>3 DEF Called
<1>5. managers' \ {l} = managers \ {l} /\ reserved' \subseteq reserved /\ gone' \subseteq gone \cup {l}
  BY <1>1
<1>6. ASSUME NEW op, NEW st, Begins(l, op, st), UNCHANGED phase,
             (op = "deploy" /\ st = "deploy-active" /\ l \notin gone)
               \/ (op = "teardown" /\ st = "teardown-active" /\ chain[l] = "closed")
      PROVE  ClusterInv'
  <2>1. LInv(l)'
    BY <1>1, <1>3, <1>4, <1>6, Beginning, Zenon
  <2>2. TypeOK'
    BY <1>1, <1>2, <1>6, Zenon DEF TypeOK, Begins
  <2> QED BY <1>1, <1>5, <1>6, <2>1, <2>2, Inside, Zenon DEF Begins
<1>7. CASE state[l] = "deploy-active"
  <2> DEFINE t == [on |-> "tick", attempts |-> 0]
  <2>1. /\ monitor' = [monitor EXCEPT ![l] = t] /\ UNCHANGED <<lingering, unhealthy, phase>>
        /\ state' = [state EXCEPT ![l] = "deploy-complete"] /\ task' = [task EXCEPT ![l] = NoTask]
    BY <1>7 DEF Result, startMonitor
  <2>2. t \in Monitors /\ t.on = "tick" /\ t.attempts = 0 /\ "deploy-complete" \in States
    BY DEF Monitors, States
  <2> HIDE DEF t
  <2>3. /\ monitor' \in [Leases -> Monitors] /\ monitor'[l] = t
        /\ \A m \in Leases : m # l => monitor'[m] = monitor[m]
        /\ state' \in [Leases -> States] /\ state'[l] = "deploy-complete"
        /\ \A m \in Leases : m # l => state'[m] = state[m]
        /\ task' \in [Leases -> Tasks] /\ task'[l] = NoTask
        /\ \A m \in Leases : m # l => task'[m] = task[m]
    BY <1>2, <2>1, <2>2, Changed, Zenon
  <2>4. TypeOK'
    BY <1>1, <1>2, <2>1, <2>3, Zenon DEF TypeOK
  <2>5. Called(l)'
    BY <1>1, <1>4, <2>1, <2>3, Defaults, Zenon DEF Called, Expecting, Teardowns
  <2>6. Current(l)'
    BY <1>1, <1>3, <1>7, <2>1, <2>3, Defaults, Zenon DEF Current
  <2>7. Counted(l)'
    <3>1. monitor[l] = NoMonitor
      BY <1>3, <1>7, Zenon DEF Counted
    <3>2. unhealthy[l] = 0 /\ MaxRetries \in Nat
      BY <1>3, <3>1, Defaults, ClusterAssumption, Zenon DEF Counted
    <3>3. 0 <= MaxRetries
      BY <3>2
    <3>4. monitor'[l].on = "tick" /\ monitor'[l].attempts = 0 /\ unhealthy'[l] = 0
      BY <2>1, <2>2, <2>3, <3>2, Zenon
    <3>5. phase'[l] = "loop"
      BY <1>1, <2>1, Zenon
    <3> QED BY <2>3, <3>3, <3>4, <3>5, Zenon DEF Counted
  <2>8. TornDown(l)'
    BY <1>1, <1>3, <1>7, <2>1, <2>3, Zenon DEF TornDown, Teardowns
  <2>9. LInv(l)'
    BY <2>5, <2>6, <2>7, <2>8 DEF LInv
  <2> QED BY <1>1, <1>5, <2>1, <2>3, <2>4, <2>9, Inside, Zenon
<1>8. CASE state[l] = "deploy-pending"
  <2>1. startDeploy(l) /\ UNCHANGED phase
    BY <1>8 DEF Result
  <2>2. Begins(l, "deploy", "deploy-active")
    BY <1>2, <1>3, <2>1, Starting, Zenon
  <2>3. l \notin gone
    BY <1>1, <1>3, <1>8 DEF TornDown, Teardowns
  <2> QED BY <1>6, <2>1, <2>2, <2>3
<1>9. CASE state[l] = "teardown-active"
  <2>1. /\ state' = [state EXCEPT ![l] = "teardown-complete"] /\ phase' = [phase EXCEPT ![l] = "leaving"]
        /\ task' = [task EXCEPT ![l] = NoTask] /\ UNCHANGED <<monitor, lingering, unhealthy>>
    BY <1>9 DEF Result, health
  <2>2. "teardown-complete" \in States /\ "leaving" \in {"none", "loop", "leaving", "done"}
    BY DEF States
  <2>3. /\ state' \in [Leases -> States] /\ state'[l] = "teardown-complete"
        /\ \A m \in Leases : m # l => state'[m] = state[m]
        /\ phase' \in [Leases -> {"none", "loop", "leaving", "done"}] /\ phase'[l] = "leaving"
        /\ \A m \in Leases : m # l => phase'[m] = phase[m]
        /\ task' \in [Leases -> Tasks] /\ task'[l] = NoTask
        /\ \A m \in Leases : m # l => task'[m] = task[m]
    BY <1>2, <2>1, <2>2, Changed, Zenon
  <2>4. TypeOK'
    BY <1>1, <1>2, <2>1, <2>3, Zenon DEF TypeOK
  <2>5. Called(l)'
    BY <1>1, <1>4, <2>1, <2>3, Defaults, Zenon DEF Called, Teardowns
  <2>6. Current(l)'
    BY <2>3, Zenon DEF Current
  <2>7. Counted(l)'
    BY <1>1, <1>3, <1>9, <2>1, <2>3, Zenon DEF Counted
  <2>8. TornDown(l)'
    BY <1>1, <1>3, <1>9, <2>1, <2>3 DEF TornDown, Teardowns
  <2>9. LInv(l)'
    BY <2>5, <2>6, <2>7, <2>8 DEF LInv
  <2> QED BY <1>1, <1>5, <2>1, <2>3, <2>4, <2>9, Inside, Zenon
<1>10. CASE state[l] = "teardown-pending"
  <2>1. startTeardown(l) /\ UNCHANGED phase
    BY <1>10 DEF Result
  <2>2. Begins(l, "teardown", "teardown-active")
    BY <1>2, <1>3, <2>1, Starting, Zenon
  <2>3. chain[l] = "closed"
    BY <1>1, <1>3, <1>10 DEF TornDown
  <2> QED BY <1>6, <2>1, <2>2, <2>3
<1> QED BY <1>4, <1>7, <1>8, <1>9, <1>10 DEF Expecting, States

-----------------------------------------------------------------------------
(* The service *)

\* The first event of the queue, and what is left.
LEMMA EventFacts ==
    ASSUME TypeOK, events # << >>
    PROVE  /\ Head(events) \in Events /\ Tail(events) \in Seq(Events)
           /\ 1 \in DOMAIN events /\ Head(events) = events[1]
           /\ \A i \in DOMAIN Tail(events) : i + 1 \in DOMAIN events /\ Tail(events)[i] = events[i + 1]
<1>1. events \in Seq(Events)
  BY Zenon DEF TypeOK
<1> QED BY <1>1

\* The fields of events and of calls.
LEMMA EventFields ==
    /\ \A e \in Events : /\ e.type \in {"manifest", "closed"} /\ e.lease \in Leases /\ e.group \in AnyGroup
    /\ \A l \in Leases : \A g \in AnyGroup :
          /\ [type |-> "manifest", lease |-> l, group |-> g] \in Events
          /\ [type |-> "manifest", lease |-> l, group |-> g].type = "manifest"
          /\ [type |-> "closed", lease |-> l, group |-> g] \in Events
          /\ [type |-> "closed", lease |-> l, group |-> g].lease = l
          /\ [op |-> "update", lease |-> l, group |-> g] \in Calls
          /\ [op |-> "update", lease |-> l, group |-> g].op = "update"
          /\ [op |-> "teardown", lease |-> l, group |-> g] \in Calls
          /\ [op |-> "teardown", lease |-> l, group |-> g].lease = l
    /\ \A c \in Calls : /\ c.op \in {"update", "teardown"} /\ c.lease \in Leases /\ c.group \in AnyGroup
BY Zenon DEF Events, Calls

\* What the manager of l does with an update or a teardown concerns l alone.
Taken(l) ==
    /\ LInv(l)' /\ phase' = phase /\ stopping' = stopping
    /\ mgroup' \in [Leases -> AnyGroup] /\ state' \in [Leases -> States] /\ task' \in [Leases -> Tasks]
    /\ monitor' \in [Leases -> Monitors] /\ lingering' \in [Leases -> Nat] /\ unhealthy' \in [Leases -> Nat]
    /\ \A m \in Leases : m # l =>
           /\ state'[m] = state[m] /\ mgroup'[m] = mgroup[m] /\ task'[m] = task[m]
           /\ monitor'[m] = monitor[m] /\ lingering'[m] = lingering[m] /\ unhealthy'[m] = unhealthy[m]

\* The manager takes an update in its select.
LEMMA UpdateTaken ==
    ASSUME ClusterInv, NEW l \in Leases, NEW g \in AnyGroup, Update(l, g), phase[l] = "loop",
           UNCHANGED <<svc, managers, reserved, chain, deployed, failed, gone>>
    PROVE  Taken(l)
<1> USE DEF Taken
<1>1. mgroup' = [mgroup EXCEPT ![l] = g] /\ UNCHANGED <<phase, stopping>>
  BY DEF Update
<1>2. /\ mgroup \in [Leases -> AnyGroup] /\ state \in [Leases -> States]
      /\ task \in [Leases -> Tasks] /\ monitor \in [Leases -> Monitors]
      /\ lingering \in [Leases -> Nat] /\ unhealthy \in [Leases -> Nat] /\ TypeOK
  BY Zenon DEF ClusterInv, TypeOK
<1>3. LInv(l) /\ Called(l) /\ Current(l) /\ Counted(l) /\ TornDown(l)
  BY Zenon DEF ClusterInv, LInv
<1>4. /\ mgroup' \in [Leases -> AnyGroup] /\ mgroup'[l] = g
      /\ \A m \in Leases : m # l => mgroup'[m] = mgroup[m]
  BY <1>1, <1>2, Changed, Zenon
<1>5. l \in managers
  BY <1>3, Zenon DEF Called
<1>6. CASE state[l] = "deploy-active"
  <2>1. state' = [state EXCEPT ![l] = "deploy-pending"] /\ UNCHANGED <<task, monitor, lingering, unhealthy>>
    BY <1>6 DEF Update, health
  <2>2. "deploy-pending" \in States
    BY DEF States
  <2>3. /\ state' \in [Leases -> States] /\ state'[l] = "deploy-pending"
        /\ \A m \in Leases : m # l => state'[m] = state[m]
    BY <1>2, <2>1, <2>2, Changed, Zenon
  <2>4. Called(l)'
    <3>1. state[l] \in Expecting /\ state'[l] \in Expecting /\ state'[l] \notin Teardowns
      BY <1>6, <2>3 DEF Expecting, States, Teardowns
    <3>2. state[l] # "teardown-active"
      BY <1>6, Zenon
    <3> QED BY <1>1, <1>3, <2>1, <3>1, <3>2, Zenon DEF Called
  <2>5. Current(l)'
    BY <2>3, Zenon DEF Current
  <2>6. Counted(l)'
    BY <1>1, <1>3, <1>6, <2>1, <2>3, Zenon DEF Counted
  <2>7. TornDown(l)'
    BY <1>1, <1>3, <1>6, <2>3, Zenon DEF TornDown, Teardowns
  <2>8. LInv(l)'
    BY <2>4, <2>5, <2>6, <2>7 DEF LInv
  <2> QED BY <1>1, <1>2, <1>4, <2>1, <2>3, <2>8, Zenon
<1>7. CASE state[l] = "deploy-complete"
  <2>1. startDeploy(l)
    BY <1>7 DEF Update
  <2>2. Begins(l, "deploy", "deploy-active")
    BY <1>2, <1>3, <2>1, Starting, Zenon
  <2>3. l \notin gone
    BY <1>3, <1>7, Zenon DEF TornDown, Teardowns
  <2>4. LInv(l)'
    BY <1>1, <1>3, <1>5, <2>2, <2>3, Beginning
  <2> QED BY <1>1, <1>4, <2>2, <2>4, Zenon DEF Begins
<1>8. CASE state[l] \notin {"deploy-active", "deploy-complete"}
  <2>1. UNCHANGED <<state, task, monitor, lingering, unhealthy>>
    BY <1>8 DEF Update, health
  <2>2. Called(l)' /\ Counted(l)' /\ TornDown(l)'
    BY <1>1, <1>3, <2>1, Zenon DEF Called, Counted, TornDown
  <2>3. Current(l)'
    BY <1>8, <2>1 DEF Current
  <2>4. LInv(l)'
    BY <2>2, <2>3, Zenon DEF LInv
  <2> QED BY <1>1, <1>2, <1>4, <2>1, <2>4, Zenon
<1> QED BY <1>6, <1>7, <1>8, Zenon

\* The manager takes a teardown in its select.
LEMMA TeardownTaken ==
    ASSUME ClusterInv, NEW l \in Leases, Teardown(l), phase[l] = "loop", chain[l] = "closed",
           UNCHANGED <<svc, managers, reserved, chain, deployed, failed, gone>>
    PROVE  Taken(l)
<1> USE DEF Taken
<1>1. UNCHANGED <<phase, stopping, mgroup>>
  BY DEF Teardown
<1>2. /\ mgroup \in [Leases -> AnyGroup] /\ state \in [Leases -> States]
      /\ task \in [Leases -> Tasks] /\ monitor \in [Leases -> Monitors]
      /\ lingering \in [Leases -> Nat] /\ unhealthy \in [Leases -> Nat] /\ TypeOK
  BY Zenon DEF ClusterInv, TypeOK
<1>3. LInv(l) /\ Called(l) /\ Current(l) /\ Counted(l) /\ TornDown(l)
  BY Zenon DEF ClusterInv, LInv
<1>4. l \in managers
  BY <1>3, Zenon DEF Called
<1>5. CASE state[l] = "deploy-complete"
  <2>1. startTeardown(l)
    BY <1>5 DEF Teardown
  <2>2. Begins(l, "teardown", "teardown-active")
    BY <1>2, <1>3, <2>1, Starting, Zenon
  <2>3. LInv(l)'
    BY <1>1, <1>3, <1>4, <2>2, Beginning
  <2> QED BY <1>1, <1>2, <2>2, <2>3, Zenon DEF Begins
<1>6. CASE state[l] # "deploy-complete"
  <2>1. /\ StopMonitor(l) /\ task' = task
        /\ \/ /\ state[l] \in {"deploy-active", "deploy-pending"}
              /\ state' = [state EXCEPT ![l] = "teardown-pending"]
           \/ state' = state /\ state[l] \notin {"deploy-active", "deploy-pending"}
    BY <1>6 DEF Teardown
  <2>2. /\ monitor' \in [Leases -> Monitors] /\ lingering' \in [Leases -> Nat]
        /\ unhealthy' \in [Leases -> Nat] /\ monitor'[l] = NoMonitor /\ unhealthy'[l] = 0
        /\ \A m \in Leases : m # l => /\ monitor'[m] = monitor[m] /\ lingering'[m] = lingering[m]
                                     /\ unhealthy'[m] = unhealthy[m]
    BY <1>2, <1>3, <2>1, Stopped, Zenon
  <2>3. /\ state' \in [Leases -> States] /\ \A m \in Leases : m # l => state'[m] = state[m]
        /\ \/ state[l] \in {"deploy-active", "deploy-pending"} /\ state'[l] = "teardown-pending"
           \/ state[l] \in {"teardown-active", "teardown-pending", "teardown-complete"} /\ state'[l] = state[l]
    <3>1. "teardown-pending" \in States /\ state[l] \in States
      BY <1>2, Zenon DEF States
    <3>2. state[l] \in {"deploy-active", "deploy-pending"} \/
          state[l] \in {"teardown-active", "teardown-pending", "teardown-complete"}
      BY <1>6, <3>1, Zenon DEF States
    <3> QED BY <1>2, <2>1, <3>1, <3>2
  <2>4. Called(l)'
    BY <1>1, <1>3, <2>1, <2>3, Zenon DEF Called, Expecting, States, Teardowns
  <2>5. Current(l)'
    BY <2>3, Zenon DEF Current
  <2>6. Counted(l)'
    BY <1>1, <2>2, Defaults DEF Counted
  <2>7. TornDown(l)'
    <3>1. state[l] \in Teardowns => state'[l] \in Teardowns
      BY <2>3 DEF Teardowns
    <3> QED BY <1>1, <1>3, <3>1, Zenon DEF TornDown
  <2>8. LInv(l)'
    BY <2>4, <2>5, <2>6, <2>7, Zenon DEF LInv
  <2> QED BY <1>1, <1>2, <2>1, <2>2, <2>3, <2>8, Zenon
<1> QED BY <1>5, <1>6

\* The service hands a call over to the manager that it waits for.
LEMMA ManagerTakesStep ==
    ASSUME ClusterInv, ManagerTakes
    PROVE  ClusterInv'
<1>1. call # NoCall /\ call \in Calls
  BY DEF ClusterInv, TypeOK, ManagerTakes
<1>2. PICK l \in Leases, g \in AnyGroup : l = call.lease /\ g = call.group
  BY <1>1, EventFields, Zenon
<1>3. /\ phase[l] = "loop" /\ call' = NoCall
      /\ (call.op = "update" /\ Update(l, g)) \/ (call.op = "teardown" /\ Teardown(l))
      /\ UNCHANGED <<svc, stop, events, managers, reserved, deployed, chain, published, crashes, failed, gone>>
  BY <1>2, Zenon DEF ManagerTakes, world
<1>4. call.op = "teardown" => chain[l] = "closed"
  BY <1>1, <1>2 DEF ClusterInv, Announced
<1>5. Taken(l)
  <2>1. CASE call.op = "update" /\ Update(l, g)
    BY <1>3, <2>1, UpdateTaken
  <2>2. CASE call.op = "teardown" /\ Teardown(l)
    BY <1>3, <1>4, <2>2, TeardownTaken
  <2> QED BY <1>3, <2>1, <2>2
<1>6. TypeOK'
  BY <1>3, <1>5, Zenon DEF ClusterInv, TypeOK, Taken
<1>7. Announced'
  BY <1>3 DEF ClusterInv, Announced
<1>8. managers' \ {l} = managers \ {l} /\ reserved' \ {l} \subseteq reserved /\ gone' \subseteq gone \cup {l}
  BY <1>3
<1>9. \A m \in Leases : m # l =>
         /\ phase'[m] = phase[m] /\ state'[m] = state[m] /\ mgroup'[m] = mgroup[m]
         /\ task'[m] = task[m] /\ monitor'[m] = monitor[m] /\ lingering'[m] = lingering[m]
         /\ unhealthy'[m] = unhealthy[m] /\ deployed'[m] = deployed[m] /\ failed'[m] = failed[m]
         /\ chain'[m] = chain[m]
  BY <1>3, <1>5, Zenon DEF Taken
<1>10. LInv(l)' /\ svc' = svc
  BY <1>3, <1>5, Zenon DEF Taken
<1> QED BY <1>6, <1>7, <1>8, <1>9, <1>10, OnlyOne, Zenon

\* A manifest starts a manager only for a lease that was not torn down.
LEMMA TakeManifestStep ==
    ASSUME ClusterInv, TakeManifest
    PROVE  ClusterInv'
<1> DEFINE ev == Head(events)
<1> USE DEF world, manager, health
<1>1. /\ svc = "running" /\ call = NoCall /\ events # << >> /\ events' = Tail(events)
      /\ UNCHANGED <<svc, stop, reserved, deployed, chain, published, crashes, failed, gone>>
  BY DEF TakeManifest, Selecting
<1>2. TypeOK
  BY DEF ClusterInv
<1>3. /\ ev \in Events /\ Tail(events) \in Seq(Events)
      /\ \A i \in DOMAIN Tail(events) : i + 1 \in DOMAIN events /\ Tail(events)[i] = events[i + 1]
  BY <1>1, <1>2, EventFacts, Zenon
<1>4. PICK l \in Leases, g \in AnyGroup : l = ev.lease /\ g = ev.group
  BY <1>3, EventFields, Zenon
<1>5. \A i \in DOMAIN events' : events'[i].type = "closed" => chain'[events'[i].lease] = "closed"
  BY <1>1, <1>3, Zenon DEF ClusterInv, Announced
<1>6. \/ UNCHANGED <<call, managers, phase, stopping, state, mgroup, task, monitor, lingering, unhealthy>>
      \/ /\ call' = [op |-> "update", lease |-> l, group |-> g]
         /\ UNCHANGED <<managers, phase, stopping, state, mgroup, task, monitor, lingering, unhealthy>>
      \/ /\ l \in reserved /\ l \notin managers /\ managers' = managers \cup {l}
         /\ newDeploymentManager(l, g) /\ call' = call
  BY <1>4, Zenon DEF TakeManifest
<1> HIDE DEF ev
<1>7. CASE UNCHANGED <<call, managers, phase, stopping, state, mgroup, task, monitor, lingering, unhealthy>>
  <2>1. TypeOK'
    BY <1>1, <1>2, <1>3, <1>7, Zenon DEF TypeOK
  <2>2. Announced'
    BY <1>1, <1>5, <1>7 DEF Announced
  <2> QED BY <1>1, <1>7, <2>1, <2>2, Untouched
<1>8. CASE /\ call' = [op |-> "update", lease |-> l, group |-> g]
           /\ UNCHANGED <<managers, phase, stopping, state, mgroup, task, monitor, lingering, unhealthy>>
  <2>1. call' \in Calls /\ call'.op = "update"
    BY <1>4, <1>8, EventFields, Zenon
  <2>2. TypeOK'
    BY <1>1, <1>2, <1>3, <1>8, <2>1, Zenon DEF TypeOK
  <2>3. Announced'
    BY <1>1, <1>5, <2>1, Zenon DEF Announced
  <2> QED BY <1>1, <1>8, <2>2, <2>3, Untouched
<1>9. CASE /\ l \in reserved /\ l \notin managers /\ managers' = managers \cup {l}
           /\ newDeploymentManager(l, g) /\ call' = call
  <2>1. LInv(l) /\ Called(l) /\ Counted(l) /\ TornDown(l)
    BY <1>4, Zenon DEF ClusterInv, LInv
  <2>2. /\ phase' = [phase EXCEPT ![l] = "loop"] /\ stopping' = [stopping EXCEPT ![l] = FALSE]
        /\ mgroup' = [mgroup EXCEPT ![l] = g] /\ startDeploy(l)
    BY <1>9 DEF newDeploymentManager
  <2>3. /\ phase \in [Leases -> {"none", "loop", "leaving", "done"}] /\ stopping \in [Leases -> BOOLEAN]
        /\ mgroup \in [Leases -> AnyGroup] /\ managers \subseteq Leases
    BY <1>2, Zenon DEF TypeOK
  <2>4. /\ phase' \in [Leases -> {"none", "loop", "leaving", "done"}] /\ stopping' \in [Leases -> BOOLEAN]
        /\ mgroup' \in [Leases -> AnyGroup] /\ phase'[l] = "loop" /\ managers' \subseteq Leases
        /\ \A m \in Leases : m # l => phase'[m] = phase[m] /\ mgroup'[m] = mgroup[m]
    BY <1>4, <1>9, <2>2, <2>3
  <2>5. Begins(l, "deploy", "deploy-active")
    BY <1>2, <1>4, <2>1, <2>2, Starting, Zenon
  <2>6. l \notin gone
    BY <1>1, <1>9, <2>1 DEF Called, TornDown
  <2>7. LInv(l)'
    <3>1. l \in managers' /\ UNCHANGED <<chain, gone, deployed>>
      BY <1>1, <1>9
    <3> QED BY <1>4, <2>1, <2>4, <2>5, <2>6, <3>1, Beginning, Zenon
  <2>8. TypeOK'
    BY <1>1, <1>2, <1>3, <1>9, <2>4, <2>5, Zenon DEF TypeOK, Begins
  <2>9. Announced'
    BY <1>1, <1>5, <1>9 DEF Announced
  <2>10. managers' \ {l} = managers \ {l} /\ reserved' \ {l} \subseteq reserved /\ gone' \subseteq gone \cup {l}
    BY <1>1, <1>9
  <2>11. \A m \in Leases : m # l =>
            /\ phase'[m] = phase[m] /\ state'[m] = state[m] /\ mgroup'[m] = mgroup[m]
            /\ task'[m] = task[m] /\ monitor'[m] = monitor[m] /\ lingering'[m] = lingering[m]
            /\ unhealthy'[m] = unhealthy[m] /\ deployed'[m] = deployed[m] /\ failed'[m] = failed[m]
            /\ chain'[m] = chain[m]
    BY <1>1, <2>4, <2>5, Zenon DEF Begins
  <2> QED BY <1>1, <1>4, <2>7, <2>8, <2>9, <2>10, <2>11, OnlyOne
<1> QED BY <1>6, <1>7, <1>8, <1>9, Zenon

\* A closed lease is torn down if it has a manager.
LEMMA TakeLeaseClosedStep ==
    ASSUME ClusterInv, TakeLeaseClosed
    PROVE  ClusterInv'
<1> DEFINE ev == Head(events)
<1> USE DEF world, manager, health
<1>1. /\ svc = "running" /\ events # << >> /\ events' = Tail(events) /\ ev.type = "closed"
      /\ call' = IF ev.lease \in managers
                 THEN [op |-> "teardown", lease |-> ev.lease, group |-> NoGroup] ELSE NoCall
      /\ UNCHANGED <<svc, stop, managers, reserved, phase, stopping, state, mgroup, task, monitor, lingering,
                     unhealthy, deployed, chain, published, crashes, failed, gone>>
  BY DEF TakeLeaseClosed, Selecting
<1>2. TypeOK
  BY DEF ClusterInv
<1>3. /\ ev \in Events /\ Tail(events) \in Seq(Events) /\ 1 \in DOMAIN events /\ ev = events[1]
      /\ \A i \in DOMAIN Tail(events) : i + 1 \in DOMAIN events /\ Tail(events)[i] = events[i + 1]
  BY <1>1, <1>2, EventFacts, Zenon
<1>4. \A i \in DOMAIN events' : events'[i].type = "closed" => chain'[events'[i].lease] = "closed"
  BY <1>1, <1>3, Zenon DEF ClusterInv, Announced
<1>5. PICK l \in Leases : l = ev.lease
  BY <1>3, EventFields, Zenon
<1>6. chain[l] = "closed"
  BY <1>1, <1>3, <1>5, Zenon DEF ClusterInv, Announced
<1>7. call' = NoCall \/ call' = [op |-> "teardown", lease |-> l, group |-> NoGroup]
  BY <1>1, <1>5
<1> HIDE DEF ev
<1>8. NoGroup \in AnyGroup
  BY DEF AnyGroup
<1>9. call' = NoCall \/ (call' \in Calls /\ call'.lease = l)
  <2>1. /\ [op |-> "teardown", lease |-> l, group |-> NoGroup] \in Calls
        /\ [op |-> "teardown", lease |-> l, group |-> NoGroup].lease = l
    BY <1>8, EventFields, Zenon
  <2> QED BY <1>7, <2>1
<1>10. TypeOK'
  BY <1>1, <1>2, <1>3, <1>9, Zenon DEF TypeOK
<1>11. Announced'
  BY <1>1, <1>4, <1>6, <1>9 DEF Announced
<1> QED BY <1>1, <1>10, <1>11, Untouched, Zenon

\* The service receives a manager that is done; while it runs it also unreserves.
LEMMA ReceivedStep ==
    ASSUME ClusterInv, NEW l \in Leases, ManagerDone(l) \/ Drain(l)
    PROVE  ClusterInv'
<1> USE DEF world, health
<1>1. /\ phase[l] = "done" /\ managers' = managers \ {l} /\ phase' = [phase EXCEPT ![l] = "none"]
      /\ (svc = "running" /\ reserved' = reserved \ {l}) \/ (svc = "draining" /\ reserved' = reserved)
      /\ UNCHANGED <<svc, stop, call, events, stopping, state, mgroup, task, monitor, lingering, unhealthy,
                     deployed, chain, published, crashes, failed, gone>>
  BY DEF ManagerDone, Drain, Selecting, Release
<1>2. /\ phase \in [Leases -> {"none", "loop", "leaving", "done"}] /\ TypeOK
      /\ managers \subseteq Leases /\ reserved \subseteq Leases
  BY Zenon DEF ClusterInv, TypeOK
<1>3. /\ phase' \in [Leases -> {"none", "loop", "leaving", "done"}] /\ phase'[l] = "none"
      /\ \A m \in Leases : m # l => phase'[m] = phase[m]
      /\ managers' \subseteq Leases /\ reserved' \subseteq Leases
  BY <1>1, <1>2
<1>4. TypeOK'
  BY <1>1, <1>2, <1>3, Zenon DEF TypeOK
<1>5. Called(l) /\ Counted(l) /\ TornDown(l)
  BY Zenon DEF ClusterInv, LInv
<1>6. Called(l)'
  BY <1>1, <1>3, <1>5, Zenon DEF Called
<1>7. Current(l)'
  BY <1>3, Zenon DEF Current
<1>8. Counted(l)'
  BY <1>1, <1>3, <1>5, Zenon DEF Counted
<1>9. TornDown(l)'
  BY <1>1, <1>3, <1>5, Zenon DEF TornDown
<1>10. LInv(l)'
  BY <1>6, <1>7, <1>8, <1>9 DEF LInv
<1>11. managers' \ {l} = managers \ {l} /\ reserved' \subseteq reserved /\ gone' \subseteq gone \cup {l}
  BY <1>1
<1> QED BY <1>1, <1>3, <1>4, <1>10, <1>11, Inside, Zenon

\* The service stops, or starts anew.
LEMMA StopStep ==
    ASSUME ClusterInv, RequestStop \/ Shutdown \/ Drained \/ NewService
    PROVE  ClusterInv'
<1>1. /\ UNCHANGED <<call, events, managers, reserved, phase, stopping, state, mgroup, task, monitor,
                     lingering, unhealthy, deployed, chain, published, crashes, failed, gone>>
      /\ stop' = stop \/ stop' = TRUE
      /\ svc' = svc \/ (svc' \in {"draining", "done", "panicked"}) \/ (svc = "down" /\ svc' = "running")
  BY DEF RequestStop, Shutdown, Drained, NewService, Selecting, manager, health, world
<1>2. svc' \in {"down", "running", "draining", "done", "panicked"} /\ stop' \in BOOLEAN
  BY <1>1, Zenon DEF ClusterInv, TypeOK
<1>3. TypeOK'
  BY <1>1, <1>2, Zenon DEF ClusterInv, TypeOK
<1>4. Announced'
  <2>1. Announced
    BY Zenon DEF ClusterInv
  <2>2. svc' = "down" => svc = "down"
    BY <1>1, Zenon
  <2> QED BY <1>1, <2>1, <2>2, Zenon DEF Announced
<1>5. reserved' \subseteq reserved /\ (svc' \in {"running", "down"} => svc \in {"running", "down"})
  BY <1>1
<1> QED BY <1>1, <1>3, <1>4, <1>5, Untouched, Zenon

-----------------------------------------------------------------------------
(* The rest of the provider and the market *)

\* A crash forgets the managers and the reservations, and leaves the workloads.
LEMMA CrashStep ==
    ASSUME ClusterInv, Crash
    PROVE  ClusterInv'
<1>1. /\ crashes < MaxCrashes /\ crashes' = crashes + 1
      /\ svc' = "down" /\ stop' = FALSE /\ call' = NoCall /\ events' = << >>
      /\ managers' = {} /\ reserved' = {}
      /\ phase' = [l \in Leases |-> "none"] /\ stopping' = [l \in Leases |-> FALSE]
      /\ task' = [l \in Leases |-> NoTask]
      /\ monitor' = [l \in Leases |-> NoMonitor] /\ lingering' = [l \in Leases |-> 0]
      /\ unhealthy' = [l \in Leases |-> 0]
      /\ UNCHANGED <<state, mgroup, deployed, chain, published, failed, gone>>
  BY DEF Crash
<1>2. TypeOK'
  <2>1. crashes' \in 0..MaxCrashes
    BY <1>1, ClusterAssumption DEF ClusterInv, TypeOK
  <2>2. /\ phase' \in [Leases -> {"none", "loop", "leaving", "done"}]
        /\ lingering' \in [Leases -> Nat] /\ unhealthy' \in [Leases -> Nat]
    BY <1>1
  <2>3. /\ task' \in [Leases -> Tasks] /\ monitor' \in [Leases -> Monitors]
        /\ stopping' \in [Leases -> BOOLEAN]
    BY <1>1, Defaults, Zenon
  <2>4. events' \in Seq(Events) /\ managers' \subseteq Leases /\ reserved' \subseteq Leases
    BY <1>1
  <2>5. svc' \in {"down", "running", "draining", "done", "panicked"} /\ stop' \in BOOLEAN
    BY <1>1, Zenon
  <2> QED BY <1>1, <2>1, <2>2, <2>3, <2>4, <2>5, Zenon DEF ClusterInv, TypeOK
<1>3. Announced'
  BY <1>1 DEF Announced
<1>4. ASSUME NEW l \in Leases PROVE LInv(l)'
  <2>1. /\ phase'[l] = "none" /\ task'[l] = NoTask /\ monitor'[l] = NoMonitor /\ lingering'[l] = 0
        /\ unhealthy'[l] = 0 /\ l \notin managers' /\ l \notin reserved'
    BY <1>1
  <2>2. TornDown(l)
    BY Zenon DEF ClusterInv, LInv
  <2>3. Called(l)' /\ Current(l)'
    BY <2>1, Defaults DEF Called, Current
  <2>4. Counted(l)'
    BY <2>1, Defaults, Zenon DEF Counted
  <2>5. TornDown(l)'
    BY <1>1, <2>1, <2>2, Zenon DEF TornDown
  <2> QED BY <2>3, <2>4, <2>5 DEF LInv
<1> QED BY <1>2, <1>3, <1>4 DEF ClusterInv

\* A lease that is won was not torn down, and nothing speaks of its end.
LEMMA LeaseWonStep ==
    ASSUME ClusterInv, NEW l \in Leases, LeaseWon(l)
    PROVE  ClusterInv'
<1>1. /\ svc = "running" /\ chain[l] = "none" /\ chain' = [chain EXCEPT ![l] = "active"]
      /\ reserved' = reserved \cup {l}
      /\ UNCHANGED <<svc, stop, call, events, managers, phase, stopping, state, mgroup, task, monitor,
                     lingering, unhealthy, deployed, published, crashes, failed, gone>>
  BY DEF LeaseWon, manager, health
<1>2. chain \in [Leases -> {"none", "active", "closed"}] /\ reserved \subseteq Leases /\ TypeOK
  BY Zenon DEF ClusterInv, TypeOK
<1>3. /\ chain' \in [Leases -> {"none", "active", "closed"}] /\ chain'[l] = "active"
      /\ \A m \in Leases : m # l => chain'[m] = chain[m]
      /\ reserved' \subseteq Leases
  BY <1>1, <1>2
<1>4. TypeOK'
  BY <1>1, <1>2, <1>3, Zenon DEF TypeOK
<1>5. Announced'
  <2>1. \A m \in Leases : chain[m] = "closed" => chain'[m] = "closed"
    BY <1>1, <1>3
  <2>2. call # NoCall => call.lease \in Leases
    BY <1>2, EventFields, Zenon DEF TypeOK
  <2>3. \A i \in DOMAIN events : events[i].lease \in Leases
    <3>1. \A i \in DOMAIN events : events[i] \in Events
      BY <1>2 DEF TypeOK
    <3> QED BY <3>1, EventFields, Zenon
  <2> QED BY <1>1, <2>1, <2>2, <2>3, Zenon DEF ClusterInv, Announced
<1>6. Called(l) /\ Current(l) /\ Counted(l) /\ TornDown(l)
  BY Zenon DEF ClusterInv, LInv
<1>7. Called(l)' /\ Current(l)' /\ Counted(l)'
  <2>1. Called(l)'
    BY <1>1, <1>6, Zenon DEF Called
  <2>2. Current(l)'
    BY <1>1, <1>6, Zenon DEF Current
  <2>3. Counted(l)'
    BY <1>1, <1>6, Zenon DEF Counted
  <2> QED BY <2>1, <2>2, <2>3
<1>8. TornDown(l)'
  BY <1>1, <1>6, Zenon DEF TornDown
<1>9. managers' \ {l} = managers \ {l} /\ reserved' \ {l} \subseteq reserved /\ gone' \subseteq gone \cup {l}
  BY <1>1
<1>10. LInv(l)'
  BY <1>7, <1>8 DEF LInv
<1> QED BY <1>1, <1>3, <1>4, <1>5, <1>9, <1>10, OnlyOne, Zenon

\* An event that is published.
LEMMA EventAdded ==
    ASSUME TypeOK, NEW e \in Events, Publish(e)
    PROVE  /\ events' \in Seq(Events) /\ published' \in 0..MaxEvents
           /\ \A i \in DOMAIN events' : events'[i] = e \/ (i \in DOMAIN events /\ events'[i] = events[i])
<1>1. events \in Seq(Events) /\ events' = Append(events, e)
  BY Zenon DEF TypeOK, Publish
<1>2. published' \in 0..MaxEvents
  BY ClusterAssumption DEF TypeOK, Publish
<1> QED BY <1>1, <1>2

\* A manifest comes for a lease.
LEMMA ManifestReceivedStep ==
    ASSUME ClusterInv, NEW l \in Leases, NEW g \in AnyGroup, ManifestReceived(l, g)
    PROVE  ClusterInv'
<1> DEFINE e == [type |-> "manifest", lease |-> l, group |-> g]
<1>1. /\ Publish(e)
      /\ UNCHANGED <<svc, stop, call, managers, reserved, phase, stopping, state, mgroup, task, monitor,
                     lingering, unhealthy, deployed, chain, crashes, failed, gone>>
  BY DEF ManifestReceived, manager, health
<1>2. e \in Events /\ e.type = "manifest" /\ TypeOK
  BY EventFields, Zenon DEF ClusterInv
<1> HIDE DEF e
<1>3. /\ events' \in Seq(Events) /\ published' \in 0..MaxEvents
      /\ \A i \in DOMAIN events' : events'[i] = e \/ (i \in DOMAIN events /\ events'[i] = events[i])
  BY <1>1, <1>2, EventAdded, Zenon
<1>4. TypeOK'
  BY <1>1, <1>2, <1>3, Zenon DEF TypeOK
<1>5. \A i \in DOMAIN events' : events'[i].type = "closed" => chain'[events'[i].lease] = "closed"
  BY <1>1, <1>2, <1>3, Zenon DEF ClusterInv, Announced
<1>6. Announced'
  BY <1>1, <1>5, Zenon DEF ClusterInv, Announced
<1> QED BY <1>1, <1>4, <1>6, Untouched, Zenon

\* A lease is closed on the chain.
LEMMA EventLeaseClosedStep ==
    ASSUME ClusterInv, NEW l \in Leases, EventLeaseClosed(l)
    PROVE  ClusterInv'
<1> DEFINE e == [type |-> "closed", lease |-> l, group |-> NoGroup]
<1>1. /\ chain[l] = "active" /\ chain' = [chain EXCEPT ![l] = "closed"]
      /\ Publish(e) \/ UNCHANGED <<published, events>>
      /\ UNCHANGED <<svc, stop, call, managers, reserved, phase, stopping, state, mgroup, task, monitor,
                     lingering, unhealthy, deployed, crashes, failed, gone>>
  BY DEF EventLeaseClosed, manager, health
<1>2. chain \in [Leases -> {"none", "active", "closed"}] /\ TypeOK
  BY Zenon DEF ClusterInv, TypeOK
<1>3. /\ chain' \in [Leases -> {"none", "active", "closed"}] /\ chain'[l] = "closed"
      /\ \A m \in Leases : m # l => chain'[m] = chain[m]
  BY <1>1, <1>2
<1>4. NoGroup \in AnyGroup
  BY DEF AnyGroup
<1>5. e \in Events /\ e.lease = l
  BY <1>4, EventFields, Zenon
<1> HIDE DEF e
<1>6. /\ events' \in Seq(Events) /\ published' \in 0..MaxEvents
      /\ \A i \in DOMAIN events' : events'[i] = e \/ (i \in DOMAIN events /\ events'[i] = events[i])
  <2>1. CASE Publish(e)
    BY <1>2, <1>5, <2>1, EventAdded, Zenon
  <2>2. CASE UNCHANGED <<published, events>>
    BY <1>2, <2>2, Zenon DEF TypeOK
  <2> QED BY <1>1, <2>1, <2>2
<1>7. TypeOK'
  BY <1>1, <1>2, <1>3, <1>6, Zenon DEF TypeOK
<1>8. \A m \in Leases : chain[m] = "closed" => chain'[m] = "closed"
  BY <1>3, Zenon
<1>9. \A i \in DOMAIN events' : events'[i].type = "closed" => chain'[events'[i].lease] = "closed"
  <2>1. \A i \in DOMAIN events : events[i] \in Events
    BY <1>2 DEF TypeOK
  <2>2. \A i \in DOMAIN events : events[i].lease \in Leases
    BY <2>1, EventFields, Zenon
  <2>3. \A i \in DOMAIN events : events[i].type = "closed" => chain'[events[i].lease] = "closed"
    BY <1>8, <2>2, Zenon DEF ClusterInv, Announced
  <2> QED BY <1>3, <1>5, <1>6, <2>3
<1>10. call' # NoCall /\ call'.op = "teardown" => chain'[call'.lease] = "closed"
  <2>1. call # NoCall => call.lease \in Leases
    BY <1>2, EventFields, Zenon DEF TypeOK
  <2> QED BY <1>1, <1>8, <2>1, Zenon DEF ClusterInv, Announced
<1>11. Announced'
  BY <1>1, <1>9, <1>10 DEF ClusterInv, Announced
<1>12. Called(l) /\ Current(l) /\ Counted(l) /\ TornDown(l)
  BY Zenon DEF ClusterInv, LInv
<1>13. Called(l)' /\ Current(l)' /\ Counted(l)'
  <2>1. Called(l)'
    BY <1>1, <1>12, Zenon DEF Called
  <2>2. Current(l)'
    BY <1>1, <1>12, Zenon DEF Current
  <2>3. Counted(l)'
    BY <1>1, <1>12, Zenon DEF Counted
  <2> QED BY <2>1, <2>2, <2>3
<1>14. TornDown(l)'
  BY <1>1, <1>3, <1>12, Zenon DEF TornDown
<1>15. managers' \ {l} = managers \ {l} /\ reserved' \ {l} \subseteq reserved /\ gone' \subseteq gone \cup {l}
  BY <1>1
<1>16. LInv(l)'
  BY <1>13, <1>14 DEF LInv
<1> QED BY <1>1, <1>3, <1>7, <1>11, <1>15, <1>16, OnlyOne, Zenon

-----------------------------------------------------------------------------
(* The invariant *)

\* A provider that starts has no leases, no managers and no events.
LEMMA InitClusterInv ==
    Init => ClusterInv
<1> SUFFICES ASSUME Init PROVE ClusterInv
  OBVIOUS
<1>1. TypeOK
  <2>1. /\ phase \in [Leases -> {"none", "loop", "leaving", "done"}]
        /\ chain \in [Leases -> {"none", "active", "closed"}]
        /\ lingering \in [Leases -> Nat] /\ unhealthy \in [Leases -> Nat]
        /\ published \in 0..MaxEvents /\ crashes \in 0..MaxCrashes
        /\ events \in Seq(Events) /\ managers \subseteq Leases /\ reserved \subseteq Leases
        /\ gone \subseteq Leases
    BY ClusterAssumption DEF Init
  <2>2. state \in [Leases -> States]
    BY DEF Init, States
  <2>3. mgroup \in [Leases -> AnyGroup] /\ deployed \in [Leases -> AnyGroup]
    BY DEF Init, AnyGroup
  <2>4. /\ task \in [Leases -> Tasks] /\ monitor \in [Leases -> Monitors]
        /\ stopping \in [Leases -> BOOLEAN] /\ failed \in [Leases -> BOOLEAN]
        /\ svc \in {"down", "running", "draining", "done", "panicked"} /\ stop \in BOOLEAN
        /\ call = NoCall
    BY Defaults, Zenon DEF Init
  <2> QED BY <2>1, <2>2, <2>3, <2>4, Zenon DEF TypeOK
<1>2. Announced
  BY DEF Init, Announced
<1>3. ASSUME NEW l \in Leases PROVE LInv(l)
  <2>1. /\ phase[l] = "none" /\ task[l] = NoTask /\ monitor[l] = NoMonitor /\ lingering[l] = 0
        /\ unhealthy[l] = 0 /\ l \notin managers /\ l \notin gone
    BY Zenon DEF Init
  <2>2. Called(l) /\ Current(l) /\ TornDown(l)
    BY <2>1, Defaults DEF Called, Current, TornDown
  <2>3. Counted(l)
    BY <2>1, Defaults, Zenon DEF Counted
  <2> QED BY <2>2, <2>3 DEF LInv
<1> QED BY <1>1, <1>2, <1>3 DEF ClusterInv

\* Every step of the service, of its managers and monitors and of the market keeps the
\* invariant.
LEMMA NextClusterInv ==
    ClusterInv /\ [Next]_vars => ClusterInv'
<1> SUFFICES ASSUME ClusterInv, [Next]_vars PROVE ClusterInv'
  OBVIOUS
<1>1. CASE ServiceStep
  BY <1>1, TakeManifestStep, TakeLeaseClosedStep, ManagerTakesStep, StopStep, ReceivedStep, Zenon
     DEF ServiceStep
<1>2. CASE Environment
  BY <1>2, StopStep, CrashStep, LeaseWonStep, EventLeaseClosedStep, ManifestReceivedStep, Zenon
     DEF Environment, AnyGroup
<1>3. ASSUME NEW l \in Leases, ManagerStep(l) PROVE ClusterInv'
  BY <1>3, CallStartStep, CallReturnsStep, ResultStep, LeavingStep, MonitorSteps, Zenon DEF ManagerStep
<1>4. ASSUME NEW l \in Leases, MonitorStep(l) PROVE ClusterInv'
  BY <1>4, MonitorSteps
<1>5. CASE UNCHANGED vars
  <2>1. UNCHANGED <<svc, stop, call, events, managers, reserved, phase, stopping, state, mgroup, task,
                    monitor, lingering, unhealthy, deployed, chain, published, crashes, failed, gone>>
    BY <1>5 DEF vars, service, manager, health, world
  <2>2. TypeOK' /\ Announced'
    BY <2>1, Zenon DEF ClusterInv, TypeOK, Announced
  <2> QED BY <2>1, <2>2, Untouched
<1> QED BY <1>1, <1>2, <1>3, <1>4, <1>5, Zenon DEF Next

\* The inductive invariant of the cluster service.
THEOREM ClusterInvariant == Spec => []ClusterInv
BY InitClusterInv, NextClusterInv, PTL DEF Spec

\* The fields of the service, its managers and its monitors always hold what their types say.
THEOREM ClusterTypeCorrect == Spec => []TypeOK
<1>1. ClusterInv => TypeOK
  BY DEF ClusterInv
<1> QED BY <1>1, ClusterInvariant, PTL

\* Whenever a manager considers its deploy complete, the cluster runs the manifest group that
\* the manager was given last, however many updates raced with the client's calls.
THEOREM LastManifestRuns == Spec => []DeployedIsCurrent
<1>1. ClusterInv => DeployedIsCurrent
  BY Zenon DEF ClusterInv, LInv, Current, DeployedIsCurrent
<1> QED BY <1>1, ClusterInvariant, PTL

\* A workload that teardownLease has taken down never comes back, whatever manifests arrive
\* late and however often the provider crashes and is started again.
THEOREM TornDownForGood == Spec => []StaysDown
<1>1. ClusterInv => StaysDown
  BY Zenon DEF ClusterInv, TypeOK, LInv, TornDown, StaysDown
<1> QED BY <1>1, ClusterInvariant, PTL

\* A lease has a monitor only while its deploy is complete, a manager that is done has left
\* none behind, and a monitor gives its lease up only after monitorMaxRetries + 1 failed checks
\* in a row.
THEOREM MonitorsWatchDeploys == Spec => []Monitored
<1>1. ClusterInv => Monitored
  <2> SUFFICES ASSUME ClusterInv, NEW l \in Leases
               PROVE  /\ monitor[l] # NoMonitor =>
                            state[l] = "deploy-complete" /\ phase[l] \in {"loop", "leaving"}
                      /\ phase[l] = "done" => monitor[l] = NoMonitor /\ lingering[l] = 0
                      /\ monitor[l].on = "close" => unhealthy[l] = MaxRetries + 1
    BY DEF Monitored
  <2>1. Counted(l)
    BY DEF ClusterInv, LInv
  <2> QED BY <2>1, Zenon DEF Counted
<1> QED BY <1>1, ClusterInvariant, PTL

\* "INVALID STATE: runch read" is never reached: in the loop of a manager a client call is
\* running exactly in the states that wait for one, and a teardown exactly in the state that
\* says so.
THEOREM ResultsAreExpected == Spec => []ResultsExpected
<1>1. ClusterInv => ResultsExpected
  <2> SUFFICES ASSUME ClusterInv, NEW l \in Leases, phase[l] = "loop"
               PROVE  /\ (task[l].op # "none") <=> state[l] \in Expecting
                      /\ state[l] = "teardown-active" <=> task[l].op = "teardown"
    BY DEF ResultsExpected
  <2>1. Called(l) /\ task[l] \in Tasks
    BY Zenon DEF ClusterInv, LInv, TypeOK
  <2>2. task[l].op \in {"none", "deploy", "teardown"}
    BY <2>1, TaskFields, Zenon
  <2> QED BY <2>1, <2>2 DEF Called, Expecting, States, Teardowns
<1> QED BY <1>1, ClusterInvariant, PTL

=============================================================================
