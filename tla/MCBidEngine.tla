---------------------------- MODULE MCBidEngine -----------------------------
(* Instances of BidEngine: two orders, of one group or of two groups. *)
EXTENDS BidEngine

CONSTANTS o1, o2

MCOrders == <<o1, o2>>
OneGroup == [o \in {o1, o2} |-> 1]
TwoGroups == [o \in {o1, o2} |-> IF o = o1 THEN 1 ELSE 2]
=============================================================================
