--------------------------- MODULE ProviderService ---------------------------
(***************************************************************************)
(* The provider's service (provider/service.go): NewService starts the     *)
(* cluster service, the bid engine and the manifest handler one after the  *)
(* other and takes back what it has started when one of them fails; run    *)
(* stops all of them when the first one stops.  Of a child only its life   *)
(* is modelled here: it may stop by itself, and it stops once its context  *)
(* is cancelled, which the modules of the children show, unless it is the  *)
(* cluster service and waits for a manager that has left (Cluster,         *)
(* Blocked): then it neither stops nor answers.                            *)
(***************************************************************************)
EXTENDS Naturals, Sequences

CONSTANTS MaxStatus  \* bound: calls of Status

\* The children in the order in which they are started, stopped and asked for their status.
Children == <<"cluster", "bidengine", "manifest">>

VARIABLES
    phase,      \* of NewService, then of run: see TypeOK
    child,      \* 1..3 -> "absent", "running", "blocked" or "done"
    ready,      \* has the cluster service become ready?
    cancelled,  \* has the context been cancelled?
    awaited,    \* the child whose Done is waited for, while failing or stopping
    closing,    \* has Close been called, or has the caller cancelled its context?
    status,     \* the child that a call of Status asks, 0 if there is no call
    calls       \* number of calls of Status

vars == <<phase, child, ready, cancelled, awaited, closing, status, calls>>

Init ==
    /\ phase = "start" /\ child = [i \in 1 .. 3 |-> "absent"] /\ ready = FALSE
    /\ cancelled = FALSE /\ awaited = 1 /\ closing = FALSE /\ status = 0 /\ calls = 0

-----------------------------------------------------------------------------
(* The children *)

ClusterReady ==
    /\ child[1] = "running" /\ ~ready
    /\ ready' = TRUE
    /\ UNCHANGED <<phase, child, cancelled, awaited, closing, status, calls>>

\* A child stops, by itself or because its context has been cancelled.
ChildDone(i) ==
    /\ child[i] = "running"
    /\ child' = [child EXCEPT ![i] = "done"]
    /\ UNCHANGED <<phase, ready, cancelled, awaited, closing, status, calls>>

\* The cluster service tells a manager that has left its loop of an update or of the end of
\* its lease, and is not heard: nothing but the end of the process gets it out.
ClusterBlocks ==
    /\ child[1] = "running"
    /\ child' = [child EXCEPT ![1] = "blocked"]
    /\ UNCHANGED <<phase, ready, cancelled, awaited, closing, status, calls>>

Blocked == child[1] = "blocked"

-----------------------------------------------------------------------------
(* NewService *)

\* The context is cancelled, and the children that were started are waited for.
Fail ==
    /\ phase' = "failing" /\ cancelled' = TRUE
    /\ UNCHANGED <<child, ready, awaited, closing, status, calls>>

\* Mutant: on an error the caller is told at once.
FailAtOnce ==
    /\ phase' = "failed" /\ cancelled' = TRUE
    /\ UNCHANGED <<child, ready, awaited, closing, status, calls>>

Starts(i, then) ==
    /\ child' = [child EXCEPT ![i] = "running"] /\ phase' = then
    /\ UNCHANGED <<ready, cancelled, awaited, closing, status, calls>>

StartCluster == phase = "start" /\ (Starts(1, "waiting") \/ Fail)

Ready ==
    /\ phase = "waiting" /\ ready
    /\ phase' = "ready"
    /\ UNCHANGED <<child, ready, cancelled, awaited, closing, status, calls>>

\* The timer may win although the cluster is ready.
Timeout == phase = "waiting" /\ Fail

\* Mutant: the bid engine's error leaves the cluster service behind.
StartBidengineLeaves == phase = "ready" /\ (Starts(2, "bidding") \/ FailAtOnce)

StartBidengine == phase = "ready" /\ (Starts(2, "bidding") \/ Fail)

StartManifest == phase = "bidding" /\ (Starts(3, "running") \/ Fail)

\* What was not started is not waited for.
AwaitFailed ==
    /\ phase = "failing"
    /\ IF awaited > 3 \/ child[awaited] = "absent"
       THEN phase' = "failed" /\ UNCHANGED awaited
       ELSE child[awaited] = "done" /\ awaited' = awaited + 1 /\ UNCHANGED phase
    /\ UNCHANGED <<child, ready, cancelled, closing, status, calls>>

-----------------------------------------------------------------------------
(* run, Close, Status *)

\* Close, or the caller's context is cancelled and with it that of the children.
Close ==
    /\ phase = "running" /\ ~closing
    /\ closing' = TRUE
    /\ UNCHANGED <<phase, child, ready, cancelled, awaited, status, calls>>

\* Mutant: the bid engine is not watched.
StopsUnwatched ==
    /\ phase = "running"
    /\ closing \/ \E i \in {1, 3} : child[i] = "done"
    /\ phase' = "stopping" /\ cancelled' = TRUE
    /\ UNCHANGED <<child, ready, awaited, closing, status, calls>>

\* Wait for any service to finish, then shut down all of them.
Stops ==
    /\ phase = "running"
    /\ closing \/ \E i \in 1 .. 3 : child[i] = "done"
    /\ phase' = "stopping" /\ cancelled' = TRUE
    /\ UNCHANGED <<child, ready, awaited, closing, status, calls>>

\* Wait for all services to finish.
AwaitStopped ==
    /\ phase = "stopping"
    /\ IF awaited > 3
       THEN phase' = "done" /\ UNCHANGED awaited
       ELSE child[awaited] = "done" /\ awaited' = awaited + 1 /\ UNCHANGED phase
    /\ UNCHANGED <<child, ready, cancelled, closing, status, calls>>

Returned == phase \in {"running", "stopping", "done"}

Status ==
    /\ Returned /\ status = 0 /\ calls < MaxStatus
    /\ status' = 1 /\ calls' = calls + 1
    /\ UNCHANGED <<phase, child, ready, cancelled, awaited, closing>>

\* Mutant: only a child that runs answers.
StatusAnswersRunning ==
    /\ status # 0 /\ child[status] = "running"
    /\ status' = IF status = 3 THEN 0 ELSE status + 1
    /\ UNCHANGED <<phase, child, ready, cancelled, awaited, closing, calls>>

\* A child that runs answers; one that is done makes the call return an error.
StatusAnswers ==
    /\ status # 0 /\ child[status] # "blocked"
    /\ status' = IF child[status] = "done" \/ status = 3 THEN 0 ELSE status + 1
    /\ UNCHANGED <<phase, child, ready, cancelled, awaited, closing, calls>>

\* The context of the call ends.
StatusEnds ==
    /\ status # 0
    /\ status' = 0
    /\ UNCHANGED <<phase, child, ready, cancelled, awaited, closing, calls>>

Serve == Ready \/ Timeout \/ StartBidengine \/ AwaitFailed \/ Stops \/ AwaitStopped

Next ==
    \/ StartCluster \/ Serve \/ StartManifest \/ ClusterReady \/ ClusterBlocks
    \/ Close \/ Status \/ StatusAnswers \/ StatusEnds
    \/ \E i \in 1 .. 3 : ChildDone(i)

\* The goroutines of the service are scheduled, the timer expires, and a child whose context
\* has been cancelled stops, if it is not blocked.
Fairness ==
    /\ WF_vars(Serve) /\ WF_vars(StartManifest) /\ WF_vars(StatusAnswers)
    /\ \A i \in 1 .. 3 : WF_vars(cancelled /\ ChildDone(i))

Spec == Init /\ [][Next]_vars /\ Fairness

-----------------------------------------------------------------------------
(* Properties *)

\* The shape of the state; the children are started in their order.
TypeOK ==
    /\ phase \in {"start", "waiting", "ready", "bidding", "running",
                  "failing", "failed", "stopping", "done"}
    /\ awaited \in 1 .. 4 /\ status \in 0 .. 3
    /\ \A i \in 1 .. 2 : child[i] = "absent" => child[i + 1] = "absent"
    /\ (phase \in {"running", "stopping", "done"} => child[3] # "absent")

\* When NewService returns an error it leaves nothing behind: whatever it had started when it
\* failed or ran out of time is done.
NothingLeftBehind == phase = "failed" => \A i \in 1 .. 3 : child[i] \in {"absent", "done"}

\* "Wait for all services to finish": Done is closed only when all of them are done.
DoneIsDone == phase = "done" => \A i \in 1 .. 3 : child[i] = "done"
=============================================================================
