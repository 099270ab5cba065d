------------------------------ MODULE Cluster -------------------------------
(***************************************************************************)
(* The cluster service of a provider (provider/cluster): one goroutine     *)
(* that reacts to lease and manifest events (service.go), one deployment   *)
(* manager per lease (manager.go) and the health monitor of a manager      *)
(* (monitor.go).  The service and a manager meet on unbuffered channels;   *)
(* calls of the cluster client run in goroutines of their own and report   *)
(* on a buffered channel.                                                  *)
(*                                                                         *)
(* A manager stops its monitor by a rendezvous with a monitor that is      *)
(* always ready for it, so the rendezvous is part of the manager's step.   *)
(* The reservations of the inventory are kept here only as the set of      *)
(* leases that have one; Inventory models them in full.                    *)
(***************************************************************************)
EXTENDS Integers, Sequences, FiniteSets

CONSTANTS
    Leases,
    Groups,        \* the versions of a lease's manifest group
    NoGroup,       \* no group
    MaxRetries,    \* monitorMaxRetries
    MaxEvents,     \* bound: number of events published
    MaxCrashes,    \* bound: number of crashes of the provider
    LateManifests  \* may a manifest arrive after its lease has been closed?

ASSUME ClusterAssumption ==
    /\ NoGroup \notin Groups
    /\ MaxRetries \in Nat /\ MaxEvents \in Nat /\ MaxCrashes \in Nat
    /\ LateManifests \in BOOLEAN

VARIABLES
    svc,        \* the service: "down", "running", "draining", "done" or "panicked"
    stop,       \* has anyone asked the service to stop?
    call,       \* the manager call in which the service is waiting
    events,     \* events the service has not read yet
    managers,   \* keys of service.managers
    reserved,   \* leases with a reservation
    phase,      \* lease -> manager: "none", "loop", "leaving" or "done"
    stopping,   \* lease -> is the channel dm.lc.ShuttingDown() closed?
    state,      \* lease -> deploymentState
    mgroup,     \* lease -> dm.mgroup
    task,       \* lease -> the client call behind runch
    monitor,    \* lease -> the manager's current monitor
    lingering,  \* lease -> monitors told to stop that are not done
    deployed,   \* the cluster: lease -> the group that runs there
    chain,      \* the market: lease -> "none", "active" or "closed"
    published,  \* number of events published
    crashes,    \* number of crashes
    failed,     \* history: lease -> did the last client call fail?
    unhealthy,  \* history: lease -> failed checks since the last good one
    gone        \* history: leases whose workload has been torn down

service == <<svc, stop, call, events, managers, reserved>>
manager == <<phase, stopping, state, mgroup, task>>
health == <<monitor, lingering, unhealthy>>
world == <<deployed, chain, published, crashes, failed, gone>>
vars == <<service, manager, health, world>>

States == {"deploy-active", "deploy-pending", "deploy-complete",
           "teardown-active", "teardown-pending", "teardown-complete"}
Expecting == States \ {"deploy-complete", "teardown-complete"}

NoCall == [op |-> "none"]
NoTask == [op |-> "none", step |-> "none", group |-> NoGroup]
NoMonitor == [on |-> "none", attempts |-> 0]

Init ==
    /\ svc = "running" /\ stop = FALSE /\ call = NoCall /\ events = << >>
    /\ managers = {} /\ reserved = {}
    /\ phase = [l \in Leases |-> "none"] /\ stopping = [l \in Leases |-> FALSE]
    /\ state = [l \in Leases |-> "deploy-active"] /\ mgroup = [l \in Leases |-> NoGroup]
    /\ task = [l \in Leases |-> NoTask]
    /\ monitor = [l \in Leases |-> NoMonitor] /\ lingering = [l \in Leases |-> 0]
    /\ deployed = [l \in Leases |-> NoGroup] /\ chain = [l \in Leases |-> "none"]
    /\ published = 0 /\ crashes = 0 /\ gone = {}
    /\ failed = [l \in Leases |-> FALSE] /\ unhealthy = [l \in Leases |-> 0]

-----------------------------------------------------------------------------
(* The rest of the provider and the market *)

\* The bid engine reserves for an order, and the bid wins the lease.
LeaseWon(l) ==
    /\ svc = "running" /\ chain[l] = "none"
    /\ chain' = [chain EXCEPT ![l] = "active"]
    /\ reserved' = reserved \cup {l}
    /\ UNCHANGED <<svc, stop, call, events, managers, manager, health,
                   deployed, published, crashes, failed, gone>>

Publish(ev) ==
    /\ published < MaxEvents
    /\ published' = published + 1
    /\ events' = Append(events, ev)

\* The manifest handler pairs a manifest with a lease; the manifest may lack the group.
ManifestReceived(l, g) ==
    /\ svc = "running"
    /\ chain[l] = "active" \/ (LateManifests /\ chain[l] = "closed")
    /\ Publish([type |-> "manifest", lease |-> l, group |-> g])
    /\ UNCHANGED <<svc, stop, call, managers, reserved, manager, health,
                   deployed, chain, crashes, failed, gone>>

EventLeaseClosed(l) ==
    /\ chain[l] = "active"
    /\ chain' = [chain EXCEPT ![l] = "closed"]
    /\ IF svc = "running" THEN Publish([type |-> "closed", lease |-> l, group |-> NoGroup])
                          ELSE UNCHANGED <<published, events>>
    /\ UNCHANGED <<svc, stop, call, managers, reserved, manager, health,
                   deployed, crashes, failed, gone>>

-----------------------------------------------------------------------------
(* The deployment manager *)

Spawn(op) == [op |-> op, step |-> "spawned", group |-> NoGroup]

\* stopMonitor: the monitor leaves its loop, and waits for what it has in flight.
StopMonitor(l) ==
    IF monitor[l] = NoMonitor
    THEN UNCHANGED health
    ELSE /\ monitor' = [monitor EXCEPT ![l] = NoMonitor]
         /\ lingering' = [lingering EXCEPT ![l] = @ + 1]
         /\ unhealthy' = [unhealthy EXCEPT ![l] = 0]

\* Mutant: the monitor watches on while the update is deployed.
startDeployMonitored(l) ==
    /\ UNCHANGED health
    /\ state' = [state EXCEPT ![l] = "deploy-active"]
    /\ task' = [task EXCEPT ![l] = Spawn("deploy")]

\* startDeploy and startTeardown, which take a monitor away, and startMonitor.
startDeploy(l) ==
    /\ StopMonitor(l)
    /\ state' = [state EXCEPT ![l] = "deploy-active"]
    /\ task' = [task EXCEPT ![l] = Spawn("deploy")]

startTeardown(l) ==
    /\ StopMonitor(l)
    /\ state' = [state EXCEPT ![l] = "teardown-active"]
    /\ task' = [task EXCEPT ![l] = Spawn("teardown")]

startMonitor(l) ==
    /\ monitor' = [monitor EXCEPT ![l] = [on |-> "tick", attempts |-> 0]]
    /\ UNCHANGED <<lingering, unhealthy>>

\* newDeploymentManager, up to the loop of run.
newDeploymentManager(l, g) ==
    /\ phase' = [phase EXCEPT ![l] = "loop"]
    /\ stopping' = [stopping EXCEPT ![l] = FALSE]
    /\ mgroup' = [mgroup EXCEPT ![l] = g]
    /\ startDeploy(l)

\* The goroutine of do: it reads dm.mgroup some time after it is started, without
\* synchronisation with the manager's loop, and calls the client.
CallStart(l) ==
    /\ task[l].step = "spawned"
    /\ task' = [task EXCEPT ![l].step = "calling", ![l].group = mgroup[l]]
    /\ UNCHANGED <<service, phase, stopping, state, mgroup, health, world>>

\* Deploy and TeardownLease; a call that fails may have done its work or not.
CallReturns(l, fails) ==
    LET wanted == IF task[l].op = "deploy" THEN task[l].group ELSE NoGroup
        outcomes == {wanted} \cup IF fails THEN {deployed[l]} ELSE {}
    IN  /\ task[l].step = "calling"
        /\ \E g \in outcomes : deployed' = [deployed EXCEPT ![l] = g]
        /\ task' = [task EXCEPT ![l].step = "returned"]
        /\ failed' = [failed EXCEPT ![l] = fails]
        /\ gone' = IF task[l].op = "teardown" /\ ~fails THEN gone \cup {l} ELSE gone
        /\ UNCHANGED <<service, phase, stopping, state, mgroup, health, chain, published, crashes>>

\* Mutant: an update during a deploy is taken for part of that deploy.
UpdateNotPending(l, g) ==
    /\ mgroup' = [mgroup EXCEPT ![l] = g]
    /\ IF state[l] = "deploy-complete"
       THEN startDeploy(l)
       ELSE UNCHANGED <<state, task, health>>
    /\ UNCHANGED <<phase, stopping>>

\* The case of updatech.
Update(l, g) ==
    /\ mgroup' = [mgroup EXCEPT ![l] = g]
    /\ CASE state[l] = "deploy-active" ->
              state' = [state EXCEPT ![l] = "deploy-pending"] /\ UNCHANGED <<task, health>>
         [] state[l] = "deploy-complete" -> startDeploy(l)
         [] OTHER -> UNCHANGED <<state, task, health>>
    /\ UNCHANGED <<phase, stopping>>

\* Mutant: a teardown during a deploy is not kept.
TeardownNotPending(l) ==
    /\ IF state[l] = "deploy-complete" THEN startTeardown(l)
       ELSE StopMonitor(l) /\ UNCHANGED <<state, task>>
    /\ UNCHANGED <<phase, stopping, mgroup>>

\* The case of teardownch.
Teardown(l) ==
    /\ CASE state[l] \in {"deploy-active", "deploy-pending"} ->
              /\ StopMonitor(l)
              /\ state' = [state EXCEPT ![l] = "teardown-pending"]
              /\ UNCHANGED task
         [] state[l] = "deploy-complete" -> startTeardown(l)
         [] OTHER -> StopMonitor(l) /\ UNCHANGED <<state, task>>
    /\ UNCHANGED <<phase, stopping, mgroup>>

\* The case of runch; a result in any other state is a panic.
Result(l) ==
    /\ phase[l] = "loop" /\ task[l].step = "returned"
    /\ CASE state[l] = "deploy-active" ->
              /\ startMonitor(l)
              /\ state' = [state EXCEPT ![l] = "deploy-complete"]
              /\ task' = [task EXCEPT ![l] = NoTask] /\ UNCHANGED phase
         [] state[l] = "deploy-pending" -> startDeploy(l) /\ UNCHANGED phase
         [] state[l] = "teardown-active" ->
              /\ state' = [state EXCEPT ![l] = "teardown-complete"]
              /\ phase' = [phase EXCEPT ![l] = "leaving"]
              /\ task' = [task EXCEPT ![l] = NoTask] /\ UNCHANGED health
         [] state[l] = "teardown-pending" -> startTeardown(l) /\ UNCHANGED phase
    /\ UNCHANGED <<service, stopping, mgroup, world>>

\* The manager sees the service shut down.
ManagerShutdown(l) ==
    /\ phase[l] = "loop" /\ svc = "draining"
    /\ stopping' = [stopping EXCEPT ![l] = TRUE]
    /\ phase' = [phase EXCEPT ![l] = "leaving"]
    /\ UNCHANGED <<service, state, mgroup, task, health, world>>

\* After the loop: wait for the client call and for every monitor.
ManagerLeaves(l) ==
    /\ phase[l] = "leaving"
    /\ task[l].step \in {"none", "returned"}
    /\ monitor[l] = NoMonitor /\ lingering[l] = 0
    /\ phase' = [phase EXCEPT ![l] = "done"]
    /\ task' = [task EXCEPT ![l] = NoTask]
    /\ UNCHANGED <<service, stopping, state, mgroup, health, world>>

-----------------------------------------------------------------------------
(* The monitor *)

\* runCheck, when the timer fires.
Tick(l) ==
    /\ monitor[l].on = "tick"
    /\ monitor' = [monitor EXCEPT ![l].on = "check", ![l].attempts = @ + 1]
    /\ UNCHANGED <<service, manager, lingering, unhealthy, world>>

\* Is there another attempt after a failed one?
Retry(attempts) == attempts <= MaxRetries

\* The case of runch: a good check starts the count afresh, a bad one is retried until
\* the retries are used up.
Checked(l, ok) ==
    /\ monitor[l].on = "check"
    /\ monitor' = [monitor EXCEPT ![l] =
           [on |-> IF ok \/ Retry(@.attempts) THEN "tick" ELSE "close",
            attempts |-> IF ok THEN 0 ELSE @.attempts]]
    /\ unhealthy' = [unhealthy EXCEPT ![l] = IF ok THEN 0 ELSE @ + 1]
    /\ UNCHANGED <<service, manager, lingering, world>>

\* runCloseLease returns, whether or not the message got through; nothing follows.
CloseLease(l) ==
    /\ monitor[l].on = "close"
    /\ monitor' = [monitor EXCEPT ![l].on = "idle"]
    /\ UNCHANGED <<service, manager, lingering, unhealthy, world>>

\* Mutant: the monitor looks for the shutdown only while it checks.
MonitorShutdownWhenChecking(l) ==
    /\ stopping[l] /\ monitor[l].on = "check"
    /\ StopMonitor(l)
    /\ UNCHANGED <<service, manager, world>>

\* The monitor sees its manager shut down.
MonitorShutdown(l) ==
    /\ stopping[l] /\ monitor[l] # NoMonitor
    /\ StopMonitor(l)
    /\ UNCHANGED <<service, manager, world>>

\* A monitor that was stopped has seen its check or its message off.
MonitorDone(l) ==
    /\ lingering[l] > 0
    /\ lingering' = [lingering EXCEPT ![l] = @ - 1]
    /\ UNCHANGED <<service, manager, monitor, unhealthy, world>>

-----------------------------------------------------------------------------
(* The service *)

\* The service is in the select of its loop.
Selecting == svc = "running" /\ call = NoCall

\* A manifest for a lease with a reservation: update its manager, or start one.
TakeManifest ==
    LET ev == Head(events) IN
    /\ Selecting /\ events # << >> /\ ev.type = "manifest"
    /\ events' = Tail(events)
    /\ \/ /\ ev.group = NoGroup \/ ev.lease \notin reserved
          /\ UNCHANGED <<call, managers, manager, health>>
       \/ /\ ev.group # NoGroup /\ ev.lease \in reserved /\ ev.lease \in managers
          /\ call' = [op |-> "update", lease |-> ev.lease, group |-> ev.group]
          /\ UNCHANGED <<managers, manager, health>>
       \/ /\ ev.group # NoGroup /\ ev.lease \in reserved /\ ev.lease \notin managers
          /\ managers' = managers \cup {ev.lease}
          /\ newDeploymentManager(ev.lease, ev.group)
          /\ UNCHANGED call
    /\ UNCHANGED <<svc, stop, reserved, world>>

\* teardownLease.
TakeLeaseClosed ==
    LET ev == Head(events) IN
    /\ Selecting /\ events # << >> /\ ev.type = "closed"
    /\ events' = Tail(events)
    /\ call' = IF ev.lease \in managers
               THEN [op |-> "teardown", lease |-> ev.lease, group |-> NoGroup] ELSE NoCall
    /\ UNCHANGED <<svc, stop, managers, reserved, manager, health, world>>

\* update and teardown wait until the manager is in its select.  They would also return
\* once the manager is shutting down, but a manager that leaves its loop after a teardown
\* does not say so, and one that does is shutting down because the service is.
ManagerTakes ==
    /\ call # NoCall /\ phase[call.lease] = "loop"
    /\ \/ call.op = "update" /\ Update(call.lease, call.group)
       \/ call.op = "teardown" /\ Teardown(call.lease)
    /\ call' = NoCall
    /\ UNCHANGED <<svc, stop, events, managers, reserved, world>>

\* Mutant: the reservation is kept ("todo: unreserve resources").
ReleaseNothing(l) == reserved' = reserved

\* inventory.unreserve for a manager that is done.
Release(l) == reserved' = reserved \ {l}

\* The case of managerch.
ManagerDone(l) ==
    /\ Selecting /\ l \in managers /\ phase[l] = "done"
    /\ Release(l)
    /\ managers' = managers \ {l}
    /\ phase' = [phase EXCEPT ![l] = "none"]
    /\ UNCHANGED <<svc, stop, call, events, stopping, state, mgroup, task, health, world>>

\* Close, or the context of the provider is cancelled.
RequestStop ==
    /\ svc = "running" /\ ~stop
    /\ stop' = TRUE
    /\ UNCHANGED <<svc, call, events, managers, reserved, manager, health, world>>

Shutdown ==
    /\ Selecting /\ stop
    /\ svc' = "draining"
    /\ UNCHANGED <<stop, call, events, managers, reserved, manager, health, world>>

\* Draining: one manager is received for each that was managed.
Drain(l) ==
    /\ svc = "draining" /\ l \in managers /\ phase[l] = "done"
    /\ managers' = managers \ {l}
    /\ phase' = [phase EXCEPT ![l] = "none"]
    /\ UNCHANGED <<svc, stop, call, events, reserved, stopping, state, mgroup, task, health, world>>

\* The managers are done; the inventory service, which the code waits for last, ends as soon
\* as its check in flight returns (Inventory) and is left out.
Drained ==
    /\ svc = "draining" /\ managers = {}
    /\ svc' = "done"
    /\ UNCHANGED <<stop, call, events, managers, reserved, manager, health, world>>

\* The provider process dies; the workloads stay.
Crash ==
    /\ svc \in {"running", "draining"} /\ crashes < MaxCrashes
    /\ crashes' = crashes + 1
    /\ svc' = "down" /\ stop' = FALSE /\ call' = NoCall /\ events' = << >>
    /\ managers' = {} /\ reserved' = {}
    /\ phase' = [l \in Leases |-> "none"] /\ stopping' = [l \in Leases |-> FALSE]
    /\ task' = [l \in Leases |-> NoTask]
    /\ monitor' = [l \in Leases |-> NoMonitor] /\ lingering' = [l \in Leases |-> 0]
    /\ unhealthy' = [l \in Leases |-> 0]
    /\ UNCHANGED <<state, mgroup, deployed, chain, published, failed, gone>>

ActiveLeases == {l \in Leases : chain[l] = "active"}

\* NewService.  findDeployments writes the active leases into a map that has not been
\* made, which panics as soon as there is one; without any it finds no deployment active.
NewService ==
    /\ svc = "down"
    /\ svc' = IF ActiveLeases # {} THEN "panicked" ELSE "running"
    /\ UNCHANGED <<stop, call, events, managers, reserved, manager, health, world>>

-----------------------------------------------------------------------------

\* What the goroutines of the provider do on their own.
ManagerStep(l) ==
    \/ CallStart(l) \/ (\E fails \in BOOLEAN : CallReturns(l, fails))
    \/ Result(l) \/ ManagerShutdown(l) \/ ManagerLeaves(l)
    \/ MonitorShutdown(l) \/ MonitorDone(l)

MonitorStep(l) == Tick(l) \/ (\E ok \in BOOLEAN : Checked(l, ok)) \/ CloseLease(l)

ServiceStep ==
    \/ TakeManifest \/ TakeLeaseClosed \/ ManagerTakes \/ Shutdown \/ Drained
    \/ \E l \in Leases : ManagerDone(l) \/ Drain(l)

Environment ==
    \/ RequestStop \/ Crash \/ NewService
    \/ \E l \in Leases :
          \/ LeaseWon(l) \/ EventLeaseClosed(l)
          \/ \E g \in Groups \cup {NoGroup} : ManifestReceived(l, g)

Next == ServiceStep \/ Environment \/ \E l \in Leases : ManagerStep(l) \/ MonitorStep(l)

\* Goroutines run, client calls return, and a select that is reached again and again does
\* not pass over a case that is ready every time.
Fairness ==
    /\ WF_vars(TakeManifest \/ TakeLeaseClosed) /\ WF_vars(ManagerTakes)
    /\ WF_vars(Shutdown) /\ WF_vars(Drained)
    /\ \A l \in Leases :
          /\ WF_vars(ManagerDone(l)) /\ WF_vars(Drain(l))
          /\ WF_vars(CallStart(l)) /\ WF_vars(\E fails \in BOOLEAN : CallReturns(l, fails))
          /\ WF_vars(Result(l)) /\ WF_vars(ManagerShutdown(l)) /\ WF_vars(ManagerLeaves(l))
          /\ WF_vars(MonitorShutdown(l)) /\ WF_vars(MonitorDone(l))

Spec == Init /\ [][Next]_vars /\ Fairness

-----------------------------------------------------------------------------
(* Properties *)

AnyGroup == Groups \cup {NoGroup}
Calls == [op : {"update", "teardown"}, lease : Leases, group : AnyGroup]
Events == [type : {"manifest", "closed"}, lease : Leases, group : AnyGroup]
Tasks == [op : {"none", "deploy", "teardown"},
          step : {"none", "spawned", "calling", "returned"}, group : AnyGroup]
Monitors == [on : {"none", "tick", "check", "close", "idle"}, attempts : Nat]

\* The fields of service, deploymentManager and deploymentMonitor hold what their types say.
TypeOK ==
    /\ svc \in {"down", "running", "draining", "done", "panicked"}
    /\ stop \in BOOLEAN
    /\ call = NoCall \/ call \in Calls
    /\ events \in Seq(Events)
    /\ managers \subseteq Leases /\ reserved \subseteq Leases
    /\ phase \in [Leases -> {"none", "loop", "leaving", "done"}]
    /\ stopping \in [Leases -> BOOLEAN]
    /\ state \in [Leases -> States]
    /\ mgroup \in [Leases -> AnyGroup]
    /\ task \in [Leases -> Tasks]
    /\ monitor \in [Leases -> Monitors]
    /\ lingering \in [Leases -> Nat]
    /\ deployed \in [Leases -> AnyGroup]
    /\ chain \in [Leases -> {"none", "active", "closed"}]
    /\ published \in 0..MaxEvents /\ crashes \in 0..MaxCrashes
    /\ failed \in [Leases -> BOOLEAN] /\ unhealthy \in [Leases -> Nat] /\ gone \subseteq Leases

\* "INVALID STATE: runch read": a client call is behind runch exactly in the states that
\* wait for one, and it is the call that the state names, whatever updates and teardowns
\* arrived while it ran; so neither panic of the manager is reachable.
ResultsExpected ==
    \A l \in Leases : phase[l] = "loop" =>
        /\ (task[l].op # "none") <=> state[l] \in Expecting
        /\ state[l] = "teardown-active" <=> task[l].op = "teardown"

\* When the manager considers the deploy complete, the cluster runs the manifest group it
\* was given last: the update that raced with the call has been deployed too.
DeployedIsCurrent ==
    \A l \in Leases :
        phase[l] = "loop" /\ state[l] = "deploy-complete" /\ ~failed[l] => deployed[l] = mgroup[l]

\* Once a workload has been torn down it never comes back, not even for a manifest that
\* arrives after the lease was closed: the reservation is gone by then.
StaysDown == \A l \in gone : deployed[l] = NoGroup

\* A lease is monitored only while its deploy is complete, by one monitor, and the manager
\* leaves only when no monitor of it is left.  monitorMaxRetries: the monitor gives a lease up
\* only after the first failed check and all retries have failed in a row.
Monitored ==
    \A l \in Leases :
        /\ monitor[l] # NoMonitor => state[l] = "deploy-complete" /\ phase[l] \in {"loop", "leaving"}
        /\ phase[l] = "done" => monitor[l] = NoMonitor /\ lingering[l] = 0
        /\ monitor[l].on = "close" => unhealthy[l] = MaxRetries + 1

\* The service waits in update or teardown for a manager that left its loop after a
\* teardown, and does not tell: nothing but the end of the process gets it out.
Blocked == call # NoCall /\ phase[call.lease] \in {"leaving", "done"} /\ ~stopping[call.lease]

\* A lease that has a manager when its end is to be read is torn down and gives its
\* reservation back, whatever the manager is doing, unless the provider stops first or the
\* service waits for a manager that has left.
TeardownCompletes ==
    \A l \in Leases :
        l \in managers /\ (\E i \in DOMAIN events : events[i].type = "closed" /\ events[i].lease = l) ~>
            (l \notin managers /\ l \notin reserved) \/ svc # "running" \/ Blocked

\* A lease that is closed gives its reservation back, unless the provider stops first,
\* manager or not.
ClosedLeaseUnreserved ==
    \A l \in Leases : chain[l] = "closed" ~> l \notin reserved \/ svc # "running"

\* Close returns: the service stops when it is asked to, with its managers, their calls and
\* their monitors, unless it waits for a manager that has left.
CloseReturns == stop ~> svc \in {"done", "down"} \/ Blocked

\* "not running": a call to a manager that has left its loop returns.
NeverBlocked == ~Blocked

\* "found leases": a provider that is restarted while it has active leases runs.
RestartsWithLeases == svc # "panicked"

=============================================================================
