------------------------------ MODULE Inventory -----------------------------
(***************************************************************************)
(* The inventory service of a provider (provider/cluster/inventory.go): it *)
(* accepts a reservation when it fits next to the pending ones into the    *)
(* resources last seen available in the cluster.  A reservation whose      *)
(* workload is reported deployed is marked allocated and no longer counted *)
(* as pending: its resources are left to the cluster to report as used.    *)
(* What a check subtracts is the usage that is measured                    *)
(* (kube/client.go, Inventory), be it all that was reserved or nothing.    *)
(*                                                                         *)
(* The cluster has one node, and runs whatever is deployed on it: nothing  *)
(* "prevents over-subscription" there (kube/builder.go).  Callers of *)
(* reserve and unreserve meet the loop on unbuffered channels and are      *)
(* refused once it has ended.  The service starts without reservations:    *)
(* findDeployments returns none it survives (see Cluster).                 *)
(***************************************************************************)
EXTENDS Packing

CONSTANTS
    Orders,
    Resources,   \* order -> the sequence of its resources
    Capacity,    \* what the node has for workloads
    MaxEvents    \* bound: status events not yet read

ASSUME InventoryAssumption ==
    /\ MaxEvents \in Nat
    /\ Capacity \in [Dims -> Nat]
    /\ Resources \in [Orders -> Seq(Resource)]

VARIABLES
    phase,         \* "loop", "ending" once is.lc.ShuttingDown() is closed, "done"
    inventory,     \* the units available when the last check was made
    check,         \* the inventory check in flight: the workloads it saw, or None
    reservations,  \* sequence of [order, allocated]
    events,        \* ClusterDeployment events not yet read
    running,       \* the cluster: orders whose workload runs
    silent,        \* orders whose monitor has given up
    sampled,       \* history: the workloads that used all they reserved at the last check
    unseen         \* history: was a reservation accepted while one was counted nowhere in full?

cluster == <<events, running, silent>>
vars == <<phase, inventory, check, reservations, cluster, sampled, unseen>>

None == [none |-> TRUE]

Init ==
    /\ phase = "loop" /\ inventory = << >> /\ check = None /\ reservations = << >> /\ events = << >>
    /\ running = {} /\ silent = {} /\ sampled = {} /\ unseen = FALSE

Reserved == {r.order : r \in Range(reservations)}

\* The first reservation of an order, or 0.
Find(o) ==
    LET found == {i \in DOMAIN reservations : reservations[i].order = o}
    IN  IF found = {} THEN 0 ELSE Min(found)

\* Mutant: a new reservation is compared with the inventory alone.
PendingIgnored == << >>

\* What each reservation takes of the inventory: one that is allocated is passed over.
Pending ==
    [i \in DOMAIN reservations |->
        IF reservations[i].allocated THEN << >> ELSE Resources[reservations[i].order]]

\* The reservations that count neither as pending nor in full as usage the last check measured.
Uncounted == {r.order : r \in {x \in Range(reservations) : x.allocated}} \ sampled

\* The case of reservech, for an order that is not reserved yet.
Reserve(o) ==
    /\ phase = "loop" /\ o \notin Reserved
    /\ Allocateable(inventory, Pending, Resources[o])
    /\ reservations' = Append(reservations, [order |-> o, allocated |-> FALSE])
    /\ unseen' = (unseen \/ Uncounted # {})
    /\ UNCHANGED <<phase, inventory, check, cluster, sampled>>

\* The case of unreservech: the order was lost, or its lease is over.
Unreserve(o) ==
    /\ phase = "loop" /\ Find(o) # 0
    /\ reservations' = SubSeq(reservations, 1, Find(o) - 1)
                          \o SubSeq(reservations, Find(o) + 1, Len(reservations))
    /\ silent' = silent \ {o}
    /\ UNCHANGED <<phase, inventory, check, events, running, sampled, unseen>>

\* Mutant: whatever is reported, the workload is taken to run.
StatusIsDeployed(ev) == TRUE

\* ev.Status == ClusterDeploymentDeployed.
Deployed(ev) == ev.deployed

\* The case of sub.Events(): a ClusterDeployment sets the mark of the reservation.
TakeEvent ==
    /\ phase = "loop" /\ events # << >>
    /\ events' = Tail(events)
    /\ LET i == Find(Head(events).order) IN
       reservations' = IF i = 0 THEN reservations
                       ELSE [reservations EXCEPT ![i].allocated = Deployed(Head(events))]
    /\ UNCHANGED <<phase, inventory, check, running, silent, sampled, unseen>>

\* runCheck: the client looks at the cluster; the result is taken up later.
Check ==
    /\ phase = "loop" /\ check = None
    /\ check' = [saw |-> running]
    /\ UNCHANGED <<phase, inventory, reservations, cluster, sampled, unseen>>

\* The amount of dimension d that resources ask for, and that was asked for by orders.
Need(resources, d) ==
    SumFunctionOnSet([i \in DOMAIN resources |-> resources[i].count * resources[i].unit[d]], DOMAIN resources)
Used(orders, d) == SumFunctionOnSet([o \in Orders |-> Need(Resources[o], d)], orders)

\* Amounts up to the capacity of the node.
Available == [Dims -> UNION {0 .. Capacity[d] : d \in Dims}]

\* The case of runch: of the workloads that were running those in full use all they reserved,
\* the others less, and the metrics leave free.
Checked(full, free) ==
    /\ phase = "loop" /\ check # None
    /\ full \subseteq check.saw
    /\ \A d \in Dims : free[d] + Used(full, d) <= Capacity[d]
    /\ check' = None
    /\ inventory' = <<free>>
    /\ sampled' = full
    /\ UNCHANGED <<phase, reservations, cluster, unseen>>

\* The case of runch, with an error.
CheckFailed ==
    /\ phase = "loop" /\ check # None
    /\ check' = None
    /\ UNCHANGED <<phase, inventory, reservations, cluster, sampled, unseen>>

\* The case of ShutdownRequest: the cluster service is shutting down.
Shutdown ==
    /\ phase = "loop" /\ phase' = "ending"
    /\ UNCHANGED <<inventory, check, reservations, cluster, sampled, unseen>>

\* The service waits for the check that is under way, and is done.
ShutdownCompleted ==
    /\ phase = "ending" /\ phase' = "done"
    /\ check' = None
    /\ UNCHANGED <<inventory, reservations, cluster, sampled, unseen>>

\* The cluster starts a workload, loses one or tears it down.
WorkloadStarts(o) ==
    /\ o \in Reserved \ running
    /\ running' = running \cup {o}
    /\ UNCHANGED <<phase, inventory, check, reservations, events, silent, sampled, unseen>>

WorkloadStops(o) ==
    /\ o \in running
    /\ running' = running \ {o}
    /\ UNCHANGED <<phase, inventory, check, reservations, events, silent, sampled, unseen>>

\* A deployment monitor publishes what it saw, and goes on.
Report(o) ==
    /\ o \in Reserved \ silent /\ Len(events) < MaxEvents
    /\ events' = Append(events, [order |-> o, deployed |-> o \in running])
    /\ UNCHANGED <<phase, inventory, check, reservations, running, silent, sampled, unseen>>

\* After monitorMaxRetries the report is its last one: it tries to close the lease and waits.
GiveUp(o) ==
    /\ o \in Reserved \ (silent \cup running) /\ Len(events) < MaxEvents
    /\ events' = Append(events, [order |-> o, deployed |-> FALSE])
    /\ silent' = silent \cup {o}
    /\ UNCHANGED <<phase, inventory, check, reservations, running, sampled, unseen>>

\* An update of the manifest is deployed, which starts another monitor (manager.go).
Redeployed(o) ==
    /\ o \in silent
    /\ silent' = silent \ {o}
    /\ UNCHANGED <<phase, inventory, check, reservations, events, running, sampled, unseen>>

Next ==
    \/ TakeEvent \/ Check \/ CheckFailed
    \/ Shutdown \/ ShutdownCompleted
    \/ \E full \in SUBSET Orders, free \in Available : Checked(full, free)
    \/ \E o \in Orders :
          \/ Reserve(o) \/ Unreserve(o) \/ WorkloadStarts(o) \/ WorkloadStops(o)
          \/ Report(o) \/ GiveUp(o) \/ Redeployed(o)

\* The inventory reads its events, and a monitor that has not given up checks again and
\* publishes; it is held up only while MaxEvents are under way.  (A monitor that is stopped
\* because its lease is over is followed by Unreserve, see Cluster.)
Fairness == WF_vars(TakeEvent) /\ \A o \in Orders : SF_vars(Report(o))

Spec == Init /\ [][Next]_vars /\ Fairness

-----------------------------------------------------------------------------
(* Properties *)

\* Reservations together never exceed the capacity of the cluster, unless one was accepted
\* while another counted nowhere in full: its mark was ahead of the last check, or the check
\* found its workload using less than was reserved for it.
OvercommitOnlyIfUnseen ==
    ~unseen => \A d \in Dims : Used(Reserved, d) <= Capacity[d]

\* "create new registration if capacity available": reservations together never exceed the
\* capacity of the cluster.
NoOvercommit == \A d \in Dims : Used(Reserved, d) <= Capacity[d]

\* While the service runs and a lease lasts, a workload that stays up is in the end marked
\* allocated, unless its monitor has given it up, and one that stays down is in the end
\* counted as pending again, however reports and checks interleave.
MarkedAsReported ==
    \A o \in Orders :
        LET Marked == \E r \in Range(reservations) : r.order = o /\ r.allocated
            Known == phase = "loop" /\ o \in Reserved
        IN  /\ <>[](Known /\ o \in running /\ o \notin silent) => <>[]Marked
            /\ <>[](Known /\ o \notin running) => <>[]~Marked

=============================================================================
