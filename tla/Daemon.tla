------------------------------- MODULE Daemon -------------------------------
(***************************************************************************)
(* The provider's process: NewService and run (ProviderService) with the   *)
(* manifest handler in the place of the third child.  The handler starts   *)
(* where NewService calls NewHandler, it is shut down by the context that  *)
(* is cancelled there, and its end is the end of the child.  The bid       *)
(* engine announces leases while it runs; of it and of the cluster service *)
(* only the life is kept, as in ProviderService.                           *)
(***************************************************************************)
EXTENDS ManifestHandler

CONSTANT MaxStatus  \* bound: calls of Status

VARIABLES stage, child, ready, cancelled, awaited, closing, status, calls

PS == INSTANCE ProviderService
      WITH MaxStatus <- MaxStatus, phase <- stage, child <- child, ready <- ready,
           cancelled <- cancelled, awaited <- awaited, closing <- closing,
           status <- status, calls <- calls

lifeVars == <<stage, child, ready, cancelled, awaited, closing, status, calls>>
allVars == <<vars, lifeVars>>

DaemonInit == Init /\ PS!Init

-----------------------------------------------------------------------------
(* Steps of the service alone; a panic of the handler ends the process *)

Alive == svc # "panicked"

\* NewService but for its last child, and run.
ServiceStep ==
    /\ Alive
    /\ PS!StartCluster \/ PS!Ready \/ PS!Timeout \/ PS!StartBidengine \/ PS!AwaitFailed
       \/ PS!Stops \/ PS!AwaitStopped \/ PS!ClusterReady \/ PS!ClusterBlocks \/ PS!Close \/ PS!Status \/ PS!StatusEnds
    /\ UNCHANGED vars

\* The handler answers in its loop, and its end is an answer too.
StatusStep ==
    /\ Alive /\ PS!StatusAnswers
    /\ status = 3 => svc # "draining"
    /\ UNCHANGED vars

\* The cluster service and the bid engine end.
OtherDone(i) == Alive /\ PS!ChildDone(i) /\ UNCHANGED vars

-----------------------------------------------------------------------------
(* Steps of the service and the handler together *)

\* NewHandler returns, with or without an error.
HandlerStarts ==
    \/ /\ stage = "bidding" /\ PS!Starts(3, "running")
       /\ \E S \in SUBSET Active : \E ls \in Bijection(1 .. Cardinality(S), S) : Start(ls)
    \/ stage = "bidding" /\ PS!Fail /\ StartFails

\* The context of the handler is cancelled: by run, or together with the caller's.
HandlerShutdown == (cancelled \/ closing) /\ Shutdown /\ UNCHANGED lifeVars

\* ShutdownCompleted
HandlerDone == Drained /\ PS!ChildDone(3)

-----------------------------------------------------------------------------
(* Steps of the handler and around it *)

\* NewHandler subscribes when the bid engine has started: from then on it sees what is
\* published, until it leaves its loop.  What happened before is in the state it starts from,
\* and nothing here depends on what happens later.
Subscribed == stage \notin {"start", "waiting", "ready"} /\ svc \in {"starting", "running"}

WorldStep ==
    /\ Subscribed
    /\ \/ \E l \in Leases : LeaseCreated(l) \/ LeaseClosed(l) \/ (child[2] = "running" /\ LeaseWon(l))
       \/ \E d \in Deployments : DeploymentClosed(d)
    /\ UNCHANGED lifeVars

\* A tenant's request, and its context ends.
CallStep(c) ==
    /\ Alive /\ (HandleManifest(c) \/ HandleManifestEnds(c, "cancelled"))
    /\ UNCHANGED lifeVars

EventStep == (TakeLeaseWon \/ TakeLeaseClosed \/ TakeDeploymentClose) /\ UNCHANGED lifeVars

ManagerStep(d) == (ManagerShutdown(d) \/ ManagerDone(d)) /\ UNCHANGED lifeVars

CallerReleased(c) == HandleManifestEnds(c, "not running") /\ UNCHANGED lifeVars

DaemonNext ==
    \/ ServiceStep \/ StatusStep \/ OtherDone(1) \/ OtherDone(2)
    \/ HandlerStarts \/ HandlerShutdown \/ HandlerDone
    \/ WorldStep \/ EventStep
    \/ \E d \in Deployments : ManagerStep(d)
    \/ \E c \in Callers : CallStep(c) \/ CallerReleased(c)

\* Goroutines are scheduled, the timer expires, queries return, and the cluster service and
\* the bid engine stop once their context is cancelled (CloseReturns of Cluster, MonitorsEnd
\* of BidEngine), unless the cluster service is blocked, when OtherDone(1) is not enabled.
\* Nothing else has to happen: nobody need close a lease, call or stop.
DaemonFairness ==
    /\ WF_allVars(Alive /\ PS!Serve /\ UNCHANGED vars)
    /\ WF_allVars(StatusStep) /\ WF_allVars(HandlerStarts)
    /\ WF_allVars(cancelled /\ HandlerShutdown) /\ WF_allVars(HandlerDone) /\ WF_allVars(EventStep)
    /\ \A i \in {1, 2} : WF_allVars(cancelled /\ OtherDone(i))
    /\ \A d \in Deployments : WF_allVars(ManagerStep(d))
    /\ \A c \in Callers : WF_allVars(CallerReleased(c))

DaemonSpec == DaemonInit /\ [][DaemonNext]_allVars /\ DaemonFairness

-----------------------------------------------------------------------------
(* Properties *)

\* Whether NewService fails or run ends, nothing that was started is left behind: no child,
\* no manager of the handler.
NothingLeftBehind ==
    stage \in {"failed", "done"} => PS!NothingLeftBehind /\ PS!DoneIsDone /\ managers = {}

\* "Wait for any service to finish ... Shut down all services": once one of the services has
\* stopped, whichever it is and also while the others are being started, none is left running
\* and the process ends, unless the cluster service is blocked, and whoever waits in
\* HandleManifest is let go.
OneStopsAll ==
    /\ \A i \in 1 .. 3 : child[i] = "done" ~>
          \/ (\A j \in 1 .. 3 : child[j] # "running") /\ (stage \in {"failed", "done"} \/ PS!Blocked)
          \/ ~Alive
    /\ \A c \in Callers : caller[c] = "waiting" /\ cancelled ~> caller[c] # "waiting" \/ ~Alive

\* NewService returns and Close returns, unless the cluster service is blocked, and so does a
\* call of Status that meets the end of the service, or of the handler, at any point, unless
\* it asks a cluster service that is blocked.
CallsReturn ==
    /\ stage = "waiting" ~> PS!Returned \/ stage = "failed" \/ PS!Blocked
    /\ closing ~> stage = "done" \/ ~Alive \/ PS!Blocked
    /\ status # 0 ~> status = 0 \/ ~Alive \/ (status = 1 /\ PS!Blocked)
=============================================================================
