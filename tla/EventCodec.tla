----------------------------- MODULE EventCodec ------------------------------
(***************************************************************************)
(* How an event of the chain is written as attributes (ToSDKEvent) and how *)
(* events.Publish parses them: sdkutil.ParseEvent first, then the parsers  *)
(* of the modules.  An event is [action, id, version], and the attributes  *)
(* of an event are a function from their keys, which are all different.    *)
(***************************************************************************)
EXTENDS Naturals

CONSTANTS
    Ids,        \* identifiers of leases: [owner, dseq, gseq, oseq, provider]
    Word,       \* a GSeq or an OSeq is kept modulo Word (2^32 in the code)
    None        \* no attribute, no event, no version

DeploymentActions == {"deployment-create", "deployment-update", "deployment-close"}
OrderActions == {"order-created", "order-closed"}
BidActions == {"bid-created", "bid-closed", "lease-created", "lease-closed"}

\* The attributes of an identifier.
DeploymentKeys == {"owner", "dseq"}
OrderKeys == DeploymentKeys \cup {"gseq", "oseq"}
BidKeys == OrderKeys \cup {"provider"}
KeysOf(action) ==
    IF action \in DeploymentActions THEN DeploymentKeys
    ELSE IF action \in OrderActions THEN OrderKeys ELSE BidKeys

\* The other identifiers are parts of those of leases.  EventDeploymentUpdate alone has a
\* version, which the keeper leaves nil.
ChainEvents ==
    {[action |-> a, id |-> [k \in KeysOf(a) |-> i[k]], version |-> None] :
        a \in DeploymentActions \cup OrderActions \cup BidActions, i \in Ids}

-----------------------------------------------------------------------------
\* The attributes of an event, by their keys.  There is none for a version.
ToSDKEvent(e) ==
    [k \in {"module", "action"} \cup KeysOf(e.action) |->
        CASE k = "module" -> IF e.action \in DeploymentActions THEN "deployment" ELSE "market"
          [] k = "action" -> e.action
          [] OTHER -> e.id[k]]

GetString(attrs, key) == IF key \in DOMAIN attrs THEN attrs[key] ELSE None

\* ParseEVDeploymentID, ParseEVGroupID, ParseEVOrderID, ParseEVBidID and ParseEVLeaseID.
ParseID(attrs, keys) ==
    IF \E k \in keys : GetString(attrs, k) = None THEN None
    ELSE [k \in keys |->
             IF k \in {"gseq", "oseq"} THEN GetString(attrs, k) % Word ELSE GetString(attrs, k)]

\* sdkutil.ParseEvent: the attributes are not passed on.
ParseSDK(attrs) ==
    IF GetString(attrs, "module") = None \/ GetString(attrs, "action") = None THEN None
    ELSE [module |-> GetString(attrs, "module"), action |-> GetString(attrs, "action"),
          attributes |-> [k \in {} |-> None]]

\* The parsed event has no version, whatever the one that was written had.
ParseAs(ev) ==
    LET id == ParseID(ev.attributes, KeysOf(ev.action))
    IN  IF id = None THEN None ELSE [action |-> ev.action, id |-> id, version |-> None]

\* ParseEvent of the deployment module, which knows two of its three actions.
ParseDeployment(ev) ==
    IF ev.module = "deployment" /\ ev.action \in {"deployment-create", "deployment-update"}
    THEN ParseAs(ev) ELSE None

\* ParseEvent of the market module.
ParseMarket(ev) ==
    IF ev.module = "market" /\ ev.action \in OrderActions \cup BidActions THEN ParseAs(ev) ELSE None

ParseModules(ev) == IF ParseDeployment(ev) # None THEN ParseDeployment(ev) ELSE ParseMarket(ev)

processEvent(attrs) == IF ParseSDK(attrs) = None THEN None ELSE ParseModules(ParseSDK(attrs))
=============================================================================
