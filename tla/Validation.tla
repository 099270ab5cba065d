----------------------------- MODULE Validation ------------------------------
(***************************************************************************)
(* The checks of package validation that are in force: the limits on the   *)
(* resources of a group.  A group is [name, resources], a resource [unit,  *)
(* count], a unit a function from resource dimensions to amounts.  The     *)
(* result of a check is whether it returns no error.                       *)
(*                                                                         *)
(* The comparison of a manifest with the groups of a deployment            *)
(* (validateManifestDeploymentGroups) is not modelled, because no code     *)
(* path reaches it; what its callers do instead is in SDL (Read) and in    *)
(* ManifestManager (ValidateManifestWithDeployment).                       *)
(***************************************************************************)
EXTENDS Units, Naturals, Sequences, SequencesExt, FiniteSetsExt

CONSTANTS
    MinUnit, MaxUnit,         \* per dimension, the limits on a unit
    MaxGroup,                 \* per dimension, the limit on the total of a group
    MinUnitCount, MaxUnitCount, MaxGroupUnits, MaxGroupCount,
    NoName                    \* the empty name

ASSUME ValidationAssumption ==
    /\ \A d \in Dims : MinUnit[d] \in Nat /\ MaxUnit[d] \in Nat /\ MaxGroup[d] \in Nat
    /\ {MinUnitCount, MaxUnitCount, MaxGroupUnits, MaxGroupCount} \subseteq Nat

-----------------------------------------------------------------------------
(* Limits *)

validateResourceUnit(unit) == \A d \in Dims : unit[d] \in MinUnit[d] .. MaxUnit[d]

\* A unit outside its limits is no error here, and its count is not looked at.
validateResourceGroup(r) ==
    validateResourceUnit(r.unit) => r.count \in MinUnitCount .. MaxUnitCount

\* Totals are computed in arbitrary precision.
TotalOf(resources, d) == MapThenSumSet(LAMBDA i : resources[i].unit[d] * resources[i].count, DOMAIN resources)

validateResourceList(g) ==
    /\ g.name # NoName
    /\ Len(g.resources) <= MaxGroupUnits
    /\ \A i \in DOMAIN g.resources : validateResourceGroup(g.resources[i])
    /\ \A d \in Dims : TotalOf(g.resources, d) \in 1 .. MaxGroup[d]

validateResourceLists(groups) ==
    /\ groups # << >> /\ Len(groups) <= MaxGroupCount
    /\ \A i, j \in DOMAIN groups : groups[i].name = groups[j].name => i = j
    /\ \A i \in DOMAIN groups : validateResourceList(groups[i])

-----------------------------------------------------------------------------
(* What it means that two lists of resources ask for the same *)

CountOf(resources, unit) ==
    MapThenSumSet(LAMBDA i : IF resources[i].unit = unit THEN resources[i].count ELSE 0, DOMAIN resources)

\* The instances of every unit are as many, however they are split into records.
SameResources(r, s) ==
    \A u \in {x.unit : x \in Range(r) \cup Range(s)} : CountOf(r, u) = CountOf(s, u)
=============================================================================
