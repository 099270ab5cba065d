--------------------------------- MODULE SDL ---------------------------------
(***************************************************************************)
(* The stack definition language (package sdl): how one document gives     *)
(* both the groups of a deployment, which go to the chain, and the         *)
(* manifest, which goes to the provider, and what Read accepts.            *)
(*                                                                         *)
(* A document is                                                           *)
(*   services   the services that are described: a set of names            *)
(*   compute    compute profile -> unit                                    *)
(*   placement  placement profile -> the compute profiles it has a price   *)
(*              for                                                        *)
(*   deployment service -> (placement profile -> [profile, count])         *)
(* Names are numbers in their sorted order.  Images, ports and prices are  *)
(* left out.                                                               *)
(***************************************************************************)
EXTENDS Validation

Sorted(names) == SetToSortSeq(names, <)

\* The deployment section in the order in which both functions walk through it.
Entries(doc) ==
    LET of(s) == LET places == Sorted(DOMAIN doc.deployment[s])
                 IN  [i \in DOMAIN places |->
                         [service |-> s, place |-> places[i], is |-> doc.deployment[s][places[i]]]]
        services == Sorted(DOMAIN doc.deployment)
    IN  FlattenSeq([i \in DOMAIN services |-> of(services[i])])

\* Each function collects groups by name as it goes, gives up at the first error, and returns
\* the groups sorted by their names.
Nothing == [ok |-> TRUE, groups |-> << >>]
GroupOf(s, place, new) == IF place \in DOMAIN s.groups THEN s.groups[place] ELSE new
InOrder(s) ==
    LET names == Sorted(DOMAIN s.groups)
    IN  [ok |-> s.ok, groups |-> [i \in DOMAIN names |-> s.groups[names[i]]]]

-----------------------------------------------------------------------------
(* The groups of the deployment *)

\* The body of the loop of DeploymentGroups: a placement has to know the profile's price.
AddResource(doc, s, e) ==
    LET group == GroupOf(s, e.place, [name |-> e.place, resources |-> << >>])
    IN  IF /\ s.ok
           /\ e.is.profile \in DOMAIN doc.compute
           /\ e.place \in DOMAIN doc.placement
           /\ e.is.profile \in doc.placement[e.place]
        THEN LET resource == [unit |-> doc.compute[e.is.profile], count |-> e.is.count]
             IN  [s EXCEPT !.groups =
                     (e.place :> [group EXCEPT !.resources = Append(@, resource)]) @@ s.groups]
        ELSE [s EXCEPT !.ok = FALSE]

DeploymentGroups(doc) == InOrder(FoldLeft(LAMBDA s, e : AddResource(doc, s, e), Nothing, Entries(doc)))

-----------------------------------------------------------------------------
(* The manifest *)

\* Mutant: a group begins anew with each of its services.
AddServiceAnew(doc, s, e) ==
    IF s.ok /\ e.is.profile \in DOMAIN doc.compute /\ e.service \in doc.services
    THEN LET service == [name |-> e.service, unit |-> doc.compute[e.is.profile], count |-> e.is.count]
         IN  [s EXCEPT !.groups = (e.place :> [name |-> e.place, services |-> <<service>>]) @@ s.groups]
    ELSE [s EXCEPT !.ok = FALSE]

\* The body of the loop of Manifest: the service has to be described, and nothing is asked of
\* the placement.
AddService(doc, s, e) ==
    LET group == GroupOf(s, e.place, [name |-> e.place, services |-> << >>])
    IN  IF s.ok /\ e.is.profile \in DOMAIN doc.compute /\ e.service \in doc.services
        THEN LET service == [name |-> e.service, unit |-> doc.compute[e.is.profile], count |-> e.is.count]
             IN  [s EXCEPT !.groups =
                     (e.place :> [group EXCEPT !.services = Append(@, service)]) @@ s.groups]
        ELSE [s EXCEPT !.ok = FALSE]

Manifest(doc) == InOrder(FoldLeft(LAMBDA s, e : AddService(doc, s, e), Nothing, Entries(doc)))

\* Does Read accept the document?  The check of the manifest and its comparison with the
\* groups are commented out.
Read(doc) ==
    /\ DeploymentGroups(doc).ok
    /\ validateResourceLists(DeploymentGroups(doc).groups)
    /\ Manifest(doc).ok
=============================================================================
