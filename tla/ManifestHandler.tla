--------------------------- MODULE ManifestHandler --------------------------
(***************************************************************************)
(* The manifest handler of a provider (provider/manifest/handler.go): one  *)
(* goroutine that gives leases and updates to the manager of their         *)
(* deployment.  Managers are kept here as far as the handler sees them:    *)
(* the leases they hold and whether they still run.  A manager in its loop *)
(* takes what the handler sends, and one that has left it lets the handler *)
(* go, so a send is one step.                                              *)
(*                                                                         *)
(* The bid engine runs before the handler does, so a lease may be won      *)
(* while the handler starts.                                               *)
(***************************************************************************)
EXTENDS Sequences, FiniteSetsExt

CONSTANTS
    Leases,
    Deployments,
    DeploymentOf,  \* lease -> its deployment
    Callers,       \* calls of HandleManifest
    MaxEvents      \* bound: number of events published

\* There are finitely many leases, so every set of them has a size.
ASSUME ManifestHandlerAssumption ==
    /\ \A S \in SUBSET Leases : Cardinality(S) \in Nat
    /\ MaxEvents \in Nat /\ DeploymentOf \in [Leases -> Deployments]

VARIABLES
    svc,        \* "starting", "running", "draining", "done", "failed" or "panicked"
    events,     \* events the handler has not read
    published,  \* number of events published
    managers,   \* keys of handler.managers
    phase,      \* deployment -> its manager: "none", "loop" or "leaving"
    held,       \* deployment -> manager.leases
    chain,      \* the chain: lease -> "none", "active" or "closed"
    announced,  \* leases whose LeaseWon has been published
    over,       \* deployments that are closed
    caller,     \* call -> "none", "waiting", "cancelled" or "not running"
    twice,      \* history: was a lease given to a manager that held it?
    late        \* history: leases closed before they were announced, or skipped at the start

world == <<published, chain, announced, over, caller>>
vars == <<svc, events, managers, phase, held, twice, late, world>>

Init ==
    /\ svc = "starting" /\ events = << >> /\ published = 0
    /\ managers = {} /\ phase = [d \in Deployments |-> "none"]
    /\ held = [d \in Deployments |-> << >>]
    /\ chain \in [Leases -> {"none", "active"}]
    /\ announced \in SUBSET {l \in Leases : chain[l] = "active"}
    /\ over = {} /\ late = {}
    /\ caller = [c \in Callers |-> "none"] /\ twice = FALSE

-----------------------------------------------------------------------------
(* The chain, the bid engine and the callers *)

Publish(ev) ==
    /\ published < MaxEvents /\ published' = published + 1
    /\ events' = IF svc \in {"starting", "running"} THEN Append(events, ev) ELSE events

\* The lease is created; the bid engine, which reads the bus too, announces it some time
\* later, perhaps when it is over.
LeaseCreated(l) ==
    /\ chain[l] = "none" /\ DeploymentOf[l] \notin over
    /\ chain' = [chain EXCEPT ![l] = "active"]
    /\ UNCHANGED <<svc, events, published, managers, phase, held, announced, over, caller, twice, late>>

LeaseWon(l) ==
    /\ chain[l] # "none" /\ l \notin announced
    /\ announced' = announced \cup {l}
    /\ Publish([type |-> "won", lease |-> l])
    /\ UNCHANGED <<svc, managers, phase, held, chain, over, caller, twice, late>>

LeaseClosed(l) ==
    /\ chain[l] = "active"
    /\ chain' = [chain EXCEPT ![l] = "closed"]
    /\ late' = IF l \in announced THEN late ELSE late \cup {l}
    /\ Publish([type |-> "closed", lease |-> l])
    /\ UNCHANGED <<svc, managers, phase, held, announced, over, caller, twice>>

\* A deployment closes after its leases.
DeploymentClosed(d) ==
    /\ d \notin over /\ \A l \in Leases : DeploymentOf[l] = d => chain[l] # "active"
    /\ over' = over \cup {d}
    /\ Publish([type |-> "over", deployment |-> d])
    /\ UNCHANGED <<svc, managers, phase, held, chain, announced, caller, twice, late>>

\* HandleManifest: nobody receives from mreqch, so a call ends with its context or with
\* the handler.
HandleManifest(c) ==
    /\ svc \notin {"starting", "failed"} /\ caller[c] = "none"
    /\ caller' = [caller EXCEPT ![c] = "waiting"]
    /\ UNCHANGED <<svc, events, published, managers, phase, held, chain, announced, over, twice, late>>

HandleManifestEnds(c, why) ==
    /\ caller[c] = "waiting"
    /\ why = "not running" => svc \in {"draining", "done"}
    /\ caller' = [caller EXCEPT ![c] = why]
    /\ UNCHANGED <<svc, events, published, managers, phase, held, chain, announced, over, twice, late>>

-----------------------------------------------------------------------------
(* The handler and its managers *)

\* Mutant: the last lease of the slice counts as beyond it.
RangeStepShort(s, i, l) ==
    IF ~s.ok \/ s.arr[i] # l THEN s
    ELSE IF i >= s.len THEN [s EXCEPT !.ok = FALSE]
    ELSE [s EXCEPT !.len = s.len - 1]

\* The loop of the case rmleasech.  range reads the array behind the slice it started with,
\* and append shifts that array: arr is the array, len the length of m.leases.  Removing at
\* an index beyond the shortened slice is a panic.
RangeStep(s, i, l) ==
    IF ~s.ok \/ s.arr[i] # l THEN s
    ELSE IF i > s.len THEN [arr |-> s.arr, len |-> s.len, ok |-> FALSE]
    ELSE [arr |-> [j \in DOMAIN s.arr |-> IF i <= j /\ j < s.len THEN s.arr[j + 1] ELSE s.arr[j]],
          len |-> s.len - 1, ok |-> TRUE]

removeLease(ls, l) ==
    MapThenFoldSet(LAMBDA i, s : RangeStep(s, i, l), [arr |-> ls, len |-> Len(ls), ok |-> TRUE],
                   LAMBDA i : i, Max, DOMAIN ls)

\* handleLease: the manager of the deployment, made if there is none, takes the lease; one
\* that is leaving does not.  handleLeases does so for the leases ls in turn.
ensureManager(x, d) ==
    IF d \in x.managers THEN x
    ELSE [managers |-> x.managers \cup {d}, phase |-> [x.phase EXCEPT ![d] = "loop"],
          held |-> [x.held EXCEPT ![d] = << >>], twice |-> x.twice]

handleLease(x, l) ==
    LET d == DeploymentOf[l]
        y == ensureManager(x, d)
    IN  IF y.phase[d] # "loop" THEN y
        ELSE [managers |-> y.managers, phase |-> y.phase,
              held |-> [y.held EXCEPT ![d] = Append(@, l)], twice |-> y.twice \/ l \in Range(y.held[d])]

handleLeases(x, ls) ==
    MapThenFoldSet(LAMBDA l, y : handleLease(y, l), x, LAMBDA i : ls[i], Max, DOMAIN ls)

State == [managers |-> managers, phase |-> phase, held |-> held, twice |-> twice]
Become(x) ==
    managers' = x.managers /\ phase' = x.phase /\ held' = x.held /\ twice' = x.twice

Active == {l \in Leases : chain[l] = "active"}

\* The end of NewHandler and the start of run: the leases the chain lists as active now, in
\* some order, but for those whose group cannot be fetched; the handler has been subscribed
\* since Init.
Start(ls) ==
    /\ svc = "starting"
    /\ svc' = "running"
    /\ late' = late \cup (Active \ Range(ls))
    /\ Become(handleLeases(State, ls))
    /\ UNCHANGED <<events, world>>

StartFails ==
    /\ svc = "starting"
    /\ svc' = "failed"
    /\ UNCHANGED <<events, managers, phase, held, twice, late, world>>

\* The cases of sub.Events(), one for each event.
Reads(type) == svc = "running" /\ events # << >> /\ Head(events).type = type

TakeLeaseWon ==
    /\ Reads("won")
    /\ events' = Tail(events)
    /\ Become(handleLease(State, Head(events).lease))
    /\ UNCHANGED <<svc, late, world>>

\* Mutant: the managers are not told of a lease that is over.
TakeLeaseClosedDropped ==
    /\ Reads("closed")
    /\ events' = Tail(events)
    /\ UNCHANGED <<svc, managers, phase, held, twice, late, world>>

TakeLeaseClosed ==
    LET l == Head(events).lease
        d == DeploymentOf[l]
        r == removeLease(held[d], l)
    IN  /\ Reads("closed")
        /\ events' = Tail(events)
        /\ IF d \in managers /\ phase[d] = "loop"
           THEN /\ held' = [held EXCEPT ![d] = SubSeq(r.arr, 1, r.len)]
                /\ svc' = IF r.ok THEN svc ELSE "panicked"
           ELSE UNCHANGED <<svc, held>>
        /\ UNCHANGED <<managers, phase, twice, late, world>>

TakeDeploymentClose ==
    LET d == Head(events).deployment IN
    /\ Reads("over")
    /\ events' = Tail(events)
    /\ phase' = IF d \in managers THEN [phase EXCEPT ![d] = "leaving"] ELSE phase
    /\ UNCHANGED <<svc, managers, held, twice, late, world>>

\* A manager sees the handler shut down.
ManagerShutdown(d) ==
    /\ phase[d] = "loop" /\ svc = "draining"
    /\ phase' = [phase EXCEPT ![d] = "leaving"]
    /\ UNCHANGED <<svc, events, managers, held, twice, late, world>>

\* The receive from managerch, in the loop or in the drain.
ManagerDone(d) ==
    /\ phase[d] = "leaving" /\ svc \in {"running", "draining"}
    /\ managers' = managers \ {d}
    /\ phase' = [phase EXCEPT ![d] = "none"]
    /\ held' = [held EXCEPT ![d] = << >>]
    /\ UNCHANGED <<svc, events, twice, late, world>>

Shutdown ==
    /\ svc = "running"
    /\ svc' = "draining"
    /\ UNCHANGED <<events, managers, phase, held, twice, late, world>>

Drained ==
    /\ svc = "draining" /\ managers = {}
    /\ svc' = "done"
    /\ UNCHANGED <<events, managers, phase, held, twice, late, world>>

Next ==
    \/ \E l \in Leases : LeaseCreated(l) \/ LeaseWon(l) \/ LeaseClosed(l)
    \/ \E d \in Deployments : DeploymentClosed(d) \/ ManagerShutdown(d) \/ ManagerDone(d)
    \/ \E c \in Callers : HandleManifest(c)
                          \/ \E why \in {"cancelled", "not running"} : HandleManifestEnds(c, why)
    \/ \E S \in SUBSET Active : \E ls \in Bijection(1 .. Cardinality(S), S) : Start(ls)
    \/ StartFails \/ TakeLeaseWon \/ TakeLeaseClosed \/ TakeDeploymentClose
    \/ Shutdown \/ Drained

\* The handler and the managers run; a waiting caller sees the handler stop.  No context
\* need ever end, and nobody need stop the handler.
Fairness ==
    /\ WF_vars(TakeLeaseWon \/ TakeLeaseClosed \/ TakeDeploymentClose) /\ WF_vars(Drained)
    /\ \A d \in Deployments : WF_vars(ManagerShutdown(d) \/ ManagerDone(d))
    /\ \A c \in Callers : WF_vars(HandleManifestEnds(c, "not running"))

Spec == Init /\ [][Next]_vars /\ Fairness

-----------------------------------------------------------------------------
(* Properties *)

Unread(type, l) ==
    \E i \in DOMAIN events : events[i].type = type /\ events[i].type # "over" /\ events[i].lease = l

\* A manager holds the leases of its deployment: those that are announced and not closed, as
\* far as the handler has read the events, and no others; except for a lease that was closed
\* before it was announced or whose group could not be fetched at the start.
HoldsActive ==
    svc = "running" /\ ~twice =>
        \A l \in Leases \ late :
            /\ chain[l] = "active" /\ l \in announced /\ ~Unread("won", l) => l \in Range(held[DeploymentOf[l]])
            /\ l \in Range(held[DeploymentOf[l]]) /\ chain[l] = "closed" => Unread("closed", l)

\* The removal of a lease only panics if the lease was there twice.
PanicsOnlyIfTwice == svc = "panicked" => twice

\* The handler manages leases that come to an end; it does not panic.
NoPanic == svc # "panicked"

\* A request is taken: a caller is not kept waiting by a running handler.
RequestTaken == \A c \in Callers : caller[c] = "waiting" ~> caller[c] # "waiting"
=============================================================================
