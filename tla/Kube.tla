-------------------------------- MODULE Kube --------------------------------
(***************************************************************************)
(* The Kubernetes client of a provider (provider/cluster/kube) and the     *)
(* cluster it talks to.  Deploy is a sequence of requests, each of which   *)
(* may fail and end it; the provider may crash between two of them.  An    *)
(* object is its kind and its name, with the lease, the group and the     *)
(* call it was last built from.                                            *)
(*                                                                         *)
(* lidNS ignores its argument, so there is one namespace and one manifest  *)
(* object for all leases.                                                  *)
(***************************************************************************)
EXTENDS Naturals, Sequences, Functions

CONSTANTS
    Leases,
    Groups,    \* manifest groups: sequences of [name, expose]
    None,      \* nothing
    MaxCalls   \* bound: calls of Deploy and TeardownLease

ASSUME KubeAssumption ==
    /\ MaxCalls \in Nat
    /\ \A g \in Groups : g \in Seq(Range(g)) /\ \A i \in DOMAIN g : g[i].expose \in {"none", "local", "global"}
    /\ None \notin Groups /\ None \notin [lease : Leases, group : Groups, by : Nat]

Kinds == {"deployment", "service", "ingress"}
NamesOf(g) == {g[i].name : i \in DOMAIN g}
Names == UNION {NamesOf(g) : g \in Groups}
Objects == Kinds \X Names

VARIABLES
    ns,        \* the namespace: "none", "active" or "terminating"
    objects,   \* object -> [lease, group, by], or None (by: the number of the call)
    manifest,  \* the manifest object: [lease, group, by], or None
    call,      \* lease -> the Deploy under way: [group, by, todo], or None
    settled,   \* lease -> its last call, if that is a Deploy that succeeded: [group, by], or None
    calls,     \* number of calls
    mixed,     \* history: the Deploys that another one was under way with
    snapshot,  \* LeaseStatus under way: the deployments it saw, or None
    quiet,     \* history: has the cluster been left alone since LeaseStatus began?
    verdict    \* history: the result of the last LeaseStatus, or None

vars == <<ns, objects, manifest, call, settled, calls, mixed, snapshot, quiet, verdict>>

Init ==
    /\ ns = "none" /\ objects = [o \in Objects |-> None] /\ manifest = None
    /\ call = [l \in Leases |-> None] /\ settled = [l \in Leases |-> None]
    /\ calls = 0 /\ mixed = {}
    /\ snapshot = None /\ quiet = TRUE /\ verdict = None

There == {o \in Objects : objects[o] # None}

\* What a provider finds when it starts: the manifest objects, of which there is one at most.
Deployments == {manifest} \ {None}

-----------------------------------------------------------------------------
(* Deploy *)

\* shouldExpose: the service is reachable from outside on port 80.
shouldExpose(expose) == expose = "global"

\* The builders name all three objects after the service; what they make of it, on creation
\* and on update, depends on the service alone and is abstracted to the group.
Apply(kind, name) == [do |-> "apply", obj |-> <<kind, name>>]
DeploymentOf(service) == Apply("deployment", service.name)
ServiceOf(service) == Apply("service", service.name)
IngressOf(service) == Apply("ingress", service.name)

\* What the loop over the services of a group applies for one of them.
Applied(service) ==
    <<DeploymentOf(service)>>
    \o (IF service.expose = "none" THEN << >> ELSE <<ServiceOf(service)>>)
    \o (IF shouldExpose(service.expose) THEN <<IngressOf(service)>> ELSE << >>)

\* What the whole loop applies, service by service.
Applies(g) ==
    LET upTo[i \in 0 .. Len(g)] == IF i = 0 THEN << >> ELSE upTo[i - 1] \o Applied(g[i])
    IN  upTo[Len(g)]

Wanted(g) == {s.obj : s \in Range(Applies(g))}

\* Mutant: the stale ingresses are forgotten.
PlanKeepsIngresses(g) ==
    <<[do |-> "namespace"], [do |-> "manifest"],
      [do |-> "clean", kind |-> "deployment"], [do |-> "clean", kind |-> "service"]>>
    \o Applies(g)

\* Mutant: the manifest is saved when everything is done.
PlanManifestLast(g) ==
    <<[do |-> "namespace"],
      [do |-> "clean", kind |-> "deployment"], [do |-> "clean", kind |-> "ingress"],
      [do |-> "clean", kind |-> "service"]>>
    \o Applies(g) \o <<[do |-> "manifest"]>>

\* The requests of Deploy and cleanupStaleResources, in order.
Plan(g) ==
    <<[do |-> "namespace"], [do |-> "manifest"],
      [do |-> "clean", kind |-> "deployment"], [do |-> "clean", kind |-> "ingress"],
      [do |-> "clean", kind |-> "service"]>>
    \o Applies(g)

\* The Deploys under way, by their numbers.
UnderWayNow == {call[l].by : l \in {k \in Leases : call[k] # None}}

Deploy(l, g) ==
    /\ call[l] = None /\ calls < MaxCalls
    /\ calls' = calls + 1
    /\ mixed' = IF UnderWayNow = {} THEN mixed ELSE mixed \cup UnderWayNow \cup {calls'}
    /\ call' = [call EXCEPT ![l] = [group |-> g, by |-> calls', todo |-> Plan(g)]]
    /\ settled' = [settled EXCEPT ![l] = None]
    /\ UNCHANGED <<ns, objects, manifest, snapshot, quiet, verdict>>

\* Objects in the namespace that cleanupStaleResources selects: managed, and of a service
\* that is not in the group.
Stale(kind, g) == {o \in There : o[1] = kind /\ o[2] \notin NamesOf(g)}

\* Each apply function gets the object and updates it, or creates it if it is not found; a
\* namespace that is terminating can be updated, but nothing new is created in it.
DeployStep(l) ==
    LET c == call[l]
        s == Head(c.todo)
        new == [lease |-> l, group |-> c.group, by |-> c.by]
    IN  /\ c # None /\ c.todo # << >>
        /\ CASE s.do = "namespace" ->
                  /\ ns' = IF ns = "none" THEN "active" ELSE ns
                  /\ UNCHANGED <<objects, manifest>>
             [] s.do = "manifest" -> manifest' = new /\ UNCHANGED <<ns, objects>>
             [] s.do = "clean" ->
                  /\ objects' = [o \in Objects |-> IF o \in Stale(s.kind, c.group) THEN None ELSE objects[o]]
                  /\ UNCHANGED <<ns, manifest>>
             [] s.do = "apply" ->
                  /\ s.obj \in There \/ ns = "active"
                  /\ objects' = [objects EXCEPT ![s.obj] = new]
                  /\ UNCHANGED <<ns, manifest>>
        /\ call' = [call EXCEPT ![l].todo = Tail(@)]
        /\ quiet' = FALSE
        /\ UNCHANGED <<settled, calls, mixed, snapshot, verdict>>

\* A request fails and Deploy with it; some of the stale objects may have been deleted.
DeployFails(l) ==
    LET c == call[l] IN
    /\ c # None /\ c.todo # << >>
    /\ \E gone \in SUBSET (IF Head(c.todo).do = "clean"
                           THEN Stale(Head(c.todo).kind, c.group) ELSE {}) :
          objects' = [o \in Objects |-> IF o \in gone THEN None ELSE objects[o]]
    /\ call' = [call EXCEPT ![l] = None]
    /\ quiet' = FALSE
    /\ UNCHANGED <<ns, manifest, settled, calls, mixed, snapshot, verdict>>

DeployReturns(l) ==
    /\ call[l] # None /\ call[l].todo = << >>
    /\ settled' = [settled EXCEPT ![l] = [group |-> call[l].group, by |-> call[l].by]]
    /\ call' = [call EXCEPT ![l] = None]
    /\ UNCHANGED <<ns, objects, manifest, calls, mixed, snapshot, quiet, verdict>>

\* TeardownLease, which may fail; the namespace goes away in its own time.
TeardownLease(l) ==
    /\ call[l] = None /\ calls < MaxCalls
    /\ calls' = calls + 1
    /\ \E r \in {ns, IF ns = "active" THEN "terminating" ELSE ns} : ns' = r
    /\ settled' = [settled EXCEPT ![l] = None]
    /\ quiet' = FALSE
    /\ UNCHANGED <<objects, manifest, call, mixed, snapshot, verdict>>

NamespaceGone ==
    /\ ns = "terminating"
    /\ ns' = "none" /\ objects' = [o \in Objects |-> None]
    /\ settled' = [l \in Leases |-> None]
    /\ quiet' = FALSE
    /\ UNCHANGED <<manifest, call, calls, mixed, snapshot, verdict>>

\* The provider crashes.  It starts again with no calls under way.
Crash ==
    /\ \E l \in Leases : call[l] # None
    /\ call' = [l \in Leases |-> None] /\ snapshot' = None
    /\ UNCHANGED <<ns, objects, manifest, settled, calls, mixed, quiet, verdict>>

-----------------------------------------------------------------------------
(* LeaseStatus, as a monitor uses it *)

deploymentsForLease == {o[2] : o \in {x \in There : x[1] = "deployment"}}

\* The deployments are listed; without any the call is over.
StatusBegins ==
    /\ snapshot = None
    /\ snapshot' = deploymentsForLease
    /\ quiet' = TRUE /\ verdict' = None
    /\ UNCHANGED <<ns, objects, manifest, call, settled, calls, mixed>>

Ingresses == {o[2] : o \in {x \in There : x[1] = "ingress"}}

\* Mutant: a lease without an ingress is as good as any.
StatusOfAny(g, available) ==
    IF snapshot = {} THEN "bad"
    ELSE IF ~(Ingresses \subseteq snapshot) THEN "panic"
    ELSE IF available /\ NamesOf(g) \subseteq snapshot THEN "good" ELSE "bad"

\* The ingresses are listed, each is looked up among the deployments, and doCheck compares
\* the result with its group; available stands for the replicas of the deployments.
StatusOf(g, available) ==
    IF snapshot = {} \/ Ingresses = {} THEN "bad"
    ELSE IF ~(Ingresses \subseteq snapshot) THEN "panic"
    ELSE IF available /\ NamesOf(g) \subseteq snapshot THEN "good" ELSE "bad"

StatusEnds(g, available) ==
    /\ snapshot # None
    /\ verdict' = [group |-> g, available |-> available, is |-> StatusOf(g, available)]
    /\ snapshot' = None
    /\ UNCHANGED <<ns, objects, manifest, call, settled, calls, mixed, quiet>>

\* One of the two lists fails: LeaseStatus returns the error and judges nothing.
StatusFails ==
    /\ verdict' = None /\ snapshot' = None
    /\ UNCHANGED <<ns, objects, manifest, call, settled, calls, mixed, quiet>>

Next ==
    \/ \E l \in Leases :
          \/ \E g \in Groups : Deploy(l, g)
          \/ DeployStep(l) \/ DeployFails(l) \/ DeployReturns(l) \/ TeardownLease(l)
    \/ \E g \in Groups, available \in BOOLEAN : StatusEnds(g, available)
    \/ NamespaceGone \/ Crash \/ StatusBegins \/ StatusFails

Spec == Init /\ [][Next]_vars

-----------------------------------------------------------------------------
(* Properties *)

BuiltFor(b, l) == b = [lease |-> l, group |-> settled[l].group, by |-> settled[l].by]

\* The last of all calls is a Deploy for l that succeeded with no other under way.
LastWord(l) == settled[l] # None /\ settled[l].by = calls /\ calls \notin mixed

\* However many calls, of whichever leases, have failed or been cut short before it, a Deploy
\* that succeeds, with no other at work beside it, leaves every object of its group as it has
\* built it, none of another service, and the manifest, until the next call, unless the
\* namespace is being torn down under it.
DeployComplete ==
    \A l \in Leases : LastWord(l) /\ ns = "active" =>
        /\ \A o \in Wanted(settled[l].group) : BuiltFor(objects[o], l)
        /\ \A o \in There : o[2] \in NamesOf(settled[l].group)
        /\ BuiltFor(manifest, l)

\* Whenever the provider crashes, what Deployments finds on its return is at least as new as
\* anything that runs in the cluster, but for the objects of Deploys that overlapped: Deploy
\* saves it before it builds the objects.
ManifestFirst ==
    \A o \in There : \E m \in Deployments : objects[o].by <= m.by \/ objects[o].by \in mixed

\* A check of a group whose Deploy succeeded, with nobody else at work, is good exactly if
\* the replicas are available and some service has an ingress; it never dereferences the nil
\* deployment of an ingress.
CheckExact ==
    \A l \in Leases :
        verdict # None /\ quiet /\ LastWord(l) /\ settled[l].group = verdict.group
        => verdict.is = IF verdict.available /\ Ingresses # {} THEN "good" ELSE "bad"

\* "build label selector for objects not in current manifest group ... delete stale
\* ingresses": after a Deploy only the objects that its group asks for are there.
NothingStale ==
    \A l \in Leases : LastWord(l) => There \subseteq Wanted(settled[l].group)

\* "path := lid.String()": the namespace of a lease is its own, so that what one lease runs
\* is there until that lease itself is deployed anew or torn down.
LeasesApart ==
    \A l \in Leases : settled[l] # None =>
        \A o \in Wanted(settled[l].group) : objects[o] # None /\ objects[o].lease = l
=============================================================================
