--------------------------- MODULE ManifestManager --------------------------
(***************************************************************************)
(* The manager of one deployment's manifests (provider/manifest/           *)
(* manager.go).  It is given leases, manifest requests and updates,        *)
(* fetches the deployment in a goroutine, answers the requests and pairs   *)
(* every lease with the manifest in use by publishing ManifestReceived.    *)
(*                                                                         *)
(* Its caller is one goroutine; the channel of a request has room for one  *)
(* answer.  The stop timer is left out: maybeScheduleStop makes one only   *)
(* when there is one already, so there never is.                           *)
(*                                                                         *)
(* A deployment has no version to follow: the chain does not store the one *)
(* that MsgUpdate has, and the event of an update carries none             *)
(* (EventCodec), so what an update brings is nil.                          *)
(***************************************************************************)
EXTENDS Naturals, Sequences, Functions

CONSTANTS
    Leases,
    Requests,    \* manifest requests; a request stands for its manifest too
    Matching,    \* those whose manifest has the groups and resources of the deployment
    None,        \* nil
    MaxUpdates,  \* bound: updates of the deployment
    MaxLeases    \* bound: leases taken and not removed

ASSUME ManifestManagerAssumption ==
    /\ Matching \subseteq Requests /\ None \notin Requests
    /\ MaxUpdates \in Nat /\ MaxLeases \in Nat

VARIABLES
    phase,      \* "loop", "waiting" (for the fetch) or "done"
    data,       \* m.data: "fetched" or None
    fetch,      \* is there a runch: "none" or "running"?
    versions,   \* the length of m.versions, a list of nils
    requests,   \* m.requests
    leases,     \* m.leases
    manifests,  \* m.manifests
    taken,      \* requests handed to the manager
    answers,    \* request -> the answers sent to it
    received    \* lease -> the manifest of the last ManifestReceived for it

vars == <<phase, data, fetch, versions, requests, leases, manifests, taken, answers, received>>

Init ==
    /\ phase = "loop" /\ data = None /\ fetch = "none" /\ versions = 0
    /\ requests = << >> /\ leases = << >> /\ manifests = << >>
    /\ taken = {} /\ answers = [r \in Requests |-> << >>]
    /\ received = [l \in Leases |-> None]

\* emitReceivedEvents, with deployment d, leases ls and manifests ms.
emitReceivedEvents(d, ls, ms) ==
    received' = IF d = None \/ ls = << >> \/ ms = << >> THEN received
                ELSE [l \in Leases |-> IF l \in Range(ls) THEN ms[Len(ms)] ELSE received[l]]

\* The check of a manifest against the groups of the deployment, which is yet to be written
\* ("TODO"): it finds no fault with any.
ValidateManifestWithDeployment(r) == TRUE

validateRequest(r) == ValidateManifestWithDeployment(r)

\* The first request of rs that is valid is taken into use.
useFirstValid(rs) ==
    LET valid == {i \in DOMAIN rs : validateRequest(rs[i])}
    IN  manifests' = IF valid = {} THEN manifests
                     ELSE Append(manifests, rs[CHOOSE i \in valid : \A j \in valid : i <= j])

Answer(r) == IF validateRequest(r) THEN "ok" ELSE "invalid"

\* Mutant: the requests that are answered are kept.
validateRequestsKeeps(d, rs) ==
    IF d = None \/ rs = << >>
    THEN requests' = rs /\ UNCHANGED <<manifests, answers>>
    ELSE /\ answers' = [r \in Requests |-> IF r \in Range(rs) THEN Append(answers[r], Answer(r)) ELSE answers[r]]
         /\ useFirstValid(rs)
         /\ requests' = rs

\* validateRequests, with deployment d and requests rs: answers each, and takes the first
\* valid one into use.
validateRequests(d, rs) ==
    IF d = None \/ rs = << >>
    THEN requests' = rs /\ UNCHANGED <<manifests, answers>>
    ELSE /\ answers' = [r \in Requests |-> IF r \in Range(rs) THEN Append(answers[r], Answer(r)) ELSE answers[r]]
         /\ useFirstValid(rs)
         /\ requests' = << >>

maybeFetchData == fetch' = IF data = None /\ fetch = "none" THEN "running" ELSE fetch

\* The case of leasech.
handleLease(l) ==
    /\ phase = "loop" /\ Len(leases) < MaxLeases
    /\ leases' = Append(leases, l)
    /\ emitReceivedEvents(data, leases', manifests)
    /\ maybeFetchData
    /\ UNCHANGED <<versions, phase, data, requests, manifests, taken, answers>>

\* The case of rmleasech, for a lease that is there at most once (see ManifestHandler).
removeLease(l) ==
    /\ phase = "loop" /\ \A i, j \in DOMAIN leases : leases[i] = l /\ leases[j] = l => i = j
    /\ \/ l \notin Range(leases) /\ UNCHANGED leases
       \/ \E i \in DOMAIN leases :
             leases[i] = l /\ leases' = SubSeq(leases, 1, i - 1) \o SubSeq(leases, i + 1, Len(leases))
    /\ UNCHANGED <<versions, phase, data, fetch, requests, manifests, taken, answers, received>>

\* The case of manifestch.
handleManifest(r) ==
    /\ phase = "loop" /\ r \notin taken
    /\ taken' = taken \cup {r}
    /\ validateRequests(data, Append(requests, r))
    /\ emitReceivedEvents(data, leases, manifests')
    /\ maybeFetchData
    /\ UNCHANGED <<versions, phase, data, leases>>

\* A request for a manager that is shutting down.
handleManifestLate(r) ==
    /\ phase # "loop" /\ r \notin taken
    /\ taken' = taken \cup {r}
    /\ answers' = [answers EXCEPT ![r] = Append(@, "not running")]
    /\ UNCHANGED <<versions, phase, data, fetch, requests, leases, manifests, received>>

\* The case of updatech.  The version that comes is nil, and so is that of the deployment.
handleUpdate ==
    /\ phase = "loop" /\ versions < MaxUpdates
    /\ versions' = versions + 1
    /\ UNCHANGED <<phase, data, fetch, requests, leases, manifests, taken, answers, received>>

\* Mutant: a deployment that arrives is not paired with what is there already.
FetchedNotEmitted ==
    /\ phase = "loop" /\ fetch = "running"
    /\ fetch' = "none"
    /\ data' = "fetched"
    /\ validateRequests(data', requests)
    /\ UNCHANGED <<versions, phase, leases, taken, received>>

\* Mutant: a deployment that arrives does not decide on the requests.
FetchedNotValidated ==
    /\ phase = "loop" /\ fetch = "running"
    /\ fetch' = "none"
    /\ data' = "fetched"
    /\ emitReceivedEvents(data', leases, manifests)
    /\ UNCHANGED <<versions, phase, requests, leases, manifests, taken, answers>>

\* The case of runch, with a deployment.
Fetched ==
    /\ phase = "loop" /\ fetch = "running"
    /\ fetch' = "none"
    /\ data' = "fetched"
    /\ validateRequests(data', requests)
    /\ emitReceivedEvents(data', leases, manifests')
    /\ UNCHANGED <<versions, phase, leases, taken>>

\* The case of runch, with an error: nothing is retried.
FetchFailed ==
    /\ phase = "loop" /\ fetch = "running"
    /\ fetch' = "none"
    /\ UNCHANGED <<versions, phase, data, requests, leases, manifests, taken, answers, received>>

\* The shutdown request, and what follows the loop.
Shutdown ==
    /\ phase = "loop"
    /\ phase' = "waiting"
    /\ answers' = [r \in Requests |-> IF r \in Range(requests)
                       THEN Append(answers[r], "not running") ELSE answers[r]]
    /\ UNCHANGED <<versions, data, fetch, requests, leases, manifests, taken, received>>

\* The fetch has ended, one way or the other.
Done ==
    /\ phase = "waiting"
    /\ phase' = "done" /\ fetch' = "none"
    /\ UNCHANGED <<versions, data, requests, leases, manifests, taken, answers, received>>

Next ==
    \/ \E l \in Leases : handleLease(l) \/ removeLease(l)
    \/ \E r \in Requests : handleManifest(r) \/ handleManifestLate(r)
    \/ handleUpdate \/ Fetched \/ FetchFailed \/ Shutdown \/ Done

\* The manager's goroutine and the query make progress, the query perhaps with an error.
Fairness == WF_vars(Fetched \/ FetchFailed) /\ WF_vars(Done)

Spec == Init /\ [][Next]_vars /\ Fairness

-----------------------------------------------------------------------------
(* Properties *)

\* The shape of the state; the deployment is fetched until it is there.
TypeOK ==
    /\ phase \in {"loop", "waiting", "done"}
    /\ data \in {"fetched", None} /\ fetch \in {"none", "running"} /\ versions \in Nat
    /\ requests \in Seq(Requests) /\ leases \in Seq(Leases) /\ manifests \in Seq(Requests)
    /\ taken \subseteq Requests
    /\ answers \in [Requests -> Seq({"ok", "invalid", "not running"})]
    /\ received \in [Leases -> Requests \cup {None}]
    /\ (fetch # "none" => data = None \/ phase # "loop")

\* No request is answered twice: the second answer would block the manager for ever.  And
\* whoever the manager leaves behind when it ends has been answered.
AnsweredOnce ==
    /\ \A r \in Requests : Len(answers[r]) <= 1
    /\ phase = "done" => \A r \in taken : answers[r] # << >>

\* Whatever the order in which the lease, the manifest and the deployment arrive, the lease
\* is paired with the manifest in use, and no lease is ever paired with a manifest that was
\* not accepted.
Paired ==
    /\ phase = "loop" /\ data # None /\ manifests # << >> =>
          \A l \in Range(leases) : received[l] = manifests[Len(manifests)]
    /\ \A l \in Leases : received[l] # None => answers[received[l]] = <<"ok">>

\* A request is answered, unless the fetch of the deployment failed and nothing asks again.
RequestAnswered ==
    \A r \in Requests : r \in taken ~> answers[r] # << >> \/ (data = None /\ fetch = "none")

\* An accepted manifest is used ("only one version means only one valid manifest").
AcceptedIsUsed == \A r \in Requests : answers[r] = <<"ok">> => r \in Range(manifests)

\* The test of ValidateManifestWithDeployment ("mismatch-name", "mismatch-cpu",
\* "mismatch-group-count"): a manifest that does not match the deployment is refused.
AcceptedMatches == \A r \in Requests : answers[r] = <<"ok">> => r \in Matching
=============================================================================
